---- MODULE Spec2Model ----
(***************************************************************************)
(* A model of bogomolovs/dbhelper: the table registry (AddTable,           *)
(* RemoveTable, newDbTable, parseField, prepareStandardQueries), the       *)
(* named-parameter statement compiler (Prepare) and the parameter binding  *)
(* of compiled statements (Pstmt.getValues, Pstmt.exec, Pstmt.Exec,        *)
(* Pstmt.Query into an int, a record or a slice of records), the record    *)
(* operations built on them (Insert, Update, Delete), a database that      *)
(* keeps the rows it is given, the selection by one column (PrepareSelect, *)
(* SelectBy) and threads that run one compiled statement at a time each.   *)
(*                                                                         *)
(* Go strings are sequences of one-character strings, so that the regular  *)
(* expression, strings.Replace, strings.Split and strings.Join are         *)
(* computed character by character as the code computes them.              *)
(***************************************************************************)
EXTENDS Integers, Sequences, FiniteSets, TLC

VARIABLES
    structT,     \* the declaration of the record type T of the calling program
    sqlDialect,  \* DbHelper.sqlDialect
    tables,      \* DbHelper.tables: reflect.Type -> *dbTable
    pstmt,       \* the compiled statement (*Pstmt) the caller holds
    arg,         \* what the caller is about to pass: a query template, or
                 \* the destination and the params of Exec and Query
    obj,         \* what the caller's pointer i points to: the record, the
                 \* slice of records or the int the call may write
    rows,        \* the cursor the last call opened: none, or the result it
                 \* runs over, the rows it has visited and whether it is closed
    ret,         \* what the last call returned
    drv,         \* the calls the last operation made to database/sql
    Db,          \* DbHelper.Db: the rows its database holds of T's table
    selectQueries, \* the select-by-column statements kept for the tables
    threads      \* the calls of the threads that share pstmt: where each
                 \* is and what it holds

vars == <<structT, sqlDialect, tables, pstmt, arg, obj, rows, ret, drv, Db,
          selectQueries, threads>>

----------------------------------------------------------------------------
(* Bounds of the model.                                                    *)

\* longest query template handed to Prepare by the caller
MaxLen == 5
\* most top-level fields of the record type T
MaxFields == 2
\* most parameter slots of the statement that Exec binds
MaxParams == 2
\* the rows of a query's result are at most
MaxRows == 3

----------------------------------------------------------------------------
(* Go strings.                                                             *)

\* "x := e; ..." of the code: the rest of a computation, F, applied to the
\* value of e
With(x, F(_)) == F(x)

\* s[from:to] of Go, 0-based, to exclusive
Slice(s, from, to) == SubSeq(s, from + 1, to)

\* strings.HasPrefix(s[at:], old), old non-empty
HasPrefixAt(s, at, old) ==
    /\ at + Len(old) <= Len(s)
    /\ s[at + 1] = old[1]
    /\ Slice(s, at, at + Len(old)) = old

\* the least number of a non-empty set of numbers
Min(S) == CHOOSE k \in S : \A j \in S : k <= j

\* strings.Index(s, old), old non-empty: the first index of old in s, -1
\* when absent
Index(s, old) ==
    LET hits == {k \in 0..(Len(s) - Len(old)) : HasPrefixAt(s, k, old)}
    IN  IF hits = {} THEN -1 ELSE Min(hits)

\* strings.Replace(s, old, new, -1), old non-empty
RECURSIVE ReplaceEvery(_, _, _)
ReplaceEvery(s, old, new) ==
    With(Index(s, old), LAMBDA k :
        IF k < 0 THEN s
        ELSE Slice(s, 0, k) \o new
                \o ReplaceEvery(Slice(s, k + Len(old), Len(s)), old, new))

\* strings.Replace(s, old, new, -1) where the code has strings.Replace(s, old,
\* new, 1)
ReplaceFirstAndLater(s, old, new) == ReplaceEvery(s, old, new)

\* strings.Replace(s, old, new, 1), old non-empty
ReplaceFirst(s, old, new) ==
    With(Index(s, old), LAMBDA k :
        IF k < 0 THEN s
        ELSE Slice(s, 0, k) \o new \o Slice(s, k + Len(old), Len(s)))

\* strings.Split(s, sep), sep one character
RECURSIVE Split(_, _)
Split(s, sep) ==
    With(Index(s, sep), LAMBDA k :
        IF k < 0 THEN <<s>>
        ELSE <<Slice(s, 0, k)>> \o Split(Slice(s, k + 1, Len(s)), sep))

\* strings.Join(a, sep)
RECURSIVE Join(_, _)
Join(a, sep) ==
    IF Len(a) = 0 THEN <<>>
    ELSE IF Len(a) = 1 THEN a[1]
    ELSE a[1] \o sep \o Join(Tail(a), sep)

Digits == <<"0", "1", "2", "3", "4", "5", "6", "7", "8", "9">>

\* fmt.Sprintf("%d", n), n >= 0
RECURSIVE Itoa(_)
Itoa(n) ==
    IF n < 10 THEN <<Digits[n + 1]>>
    ELSE Itoa(n \div 10) \o <<Digits[(n % 10) + 1]>>

----------------------------------------------------------------------------
(* sqldialect.go: the dialects and their placeholder generators.           *)

Dialects == {"Postgresql", "MySql", "Sqlite"}

\* the token the dialect's placeholder generator returns on its n-th call
\* of next(), n >= 1, counted from the generator's construction
phNext(dialect, n) ==
    IF dialect = "Postgresql" THEN <<"$">> \o Itoa(n) ELSE <<"?">>

\* dbh.sqlDialect.(hasInsertPostfix)
hasInsertPostfix(dialect) == dialect = "Postgresql"

\* dbh.sqlDialect.(hasCustomInsert)
hasCustomInsert(dialect) == dialect = "Postgresql"

----------------------------------------------------------------------------
(* Prepare: the named-parameter statement compiler.                        *)

\* \s of the regular expression
IsSpace(c) == c \in {" ", "\t", "\n", "\f", "\r"}

\* [^,\s)] of the regular expression
IsNameChar(c) == ~(c = "," \/ IsSpace(c) \/ c = ")")

\* The regular expression :[^,\s)]* matches from a colon on as far as
\* characters other than comma, white space and ")" go; FindAllString takes
\* the leftmost match, then the leftmost after its end, and so on. So a
\* match starts at each colon that no earlier match has run over, which is
\* each colon with no colon before it in its run of such characters.

\* the end (exclusive, 0-based) of the match that starts at the colon at
matchEnd(s, at) ==
    Min({e \in (at + 1)..Len(s) : e = Len(s) \/ ~IsNameChar(s[e + 1])})

\* the starts (0-based) of the matches in s
matchStarts(s) ==
    {k \in 0..(Len(s) - 1) :
        /\ s[k + 1] = ":"
        /\ \A j \in 0..(k - 1) :
              s[j + 1] = ":" => \E m \in (j + 1)..(k - 1) : ~IsNameChar(s[m + 1])}

\* the elements of a set of numbers in increasing order
Sorted(S) ==
    [n \in 1..Cardinality(S) |->
        CHOOSE k \in S : Cardinality({j \in S : j < k}) = n - 1]

\* paramRegexp.FindAllString(s, -1)
FindAllString(s) ==
    LET starts == Sorted(matchStarts(s))
    IN  [n \in 1..Len(starts) |-> Slice(s, starts[n], matchEnd(s, starts[n]))]

\* the loop of Prepare from its i-th iteration (0-based) on: the query so
\* far, the params slice so far
RECURSIVE prepareLoop(_, _, _, _)
prepareLoop(dialect, query, params, i) ==
    IF i >= Len(params) THEN [err |-> "nil", query |-> query, params |-> params]
    ELSE LET p == params[i + 1]
         IN  IF Len(p) < 2
             THEN [err |-> "wrongPlaceholder", query |-> query, params |-> params]
             ELSE prepareLoop(dialect,
                              ReplaceFirst(query, p, phNext(dialect, i + 1)),
                              [params EXCEPT ![i + 1] = Tail(p)],
                              i + 1)

\* the call dbh.Db.Prepare(query) as the log of driver calls records it: the
\* primitive called and whether it succeeded
dbPrepare(query, ok) == [op |-> "Prepare", ok |-> ok]

\* DbHelper.Prepare(query); ok: whether the driver accepts the statement.
\* Returns the error, the *Pstmt (a sequence of none or one) and the driver
\* calls made.
Prepare(dialect, query, ok) ==
    With(prepareLoop(dialect, query, FindAllString(query), 0), LAMBDA r :
        IF r.err # "nil" THEN [err |-> r.err, pstmt |-> <<>>, calls |-> <<>>]
        ELSE IF ~ok THEN [err |-> "driver", pstmt |-> <<>>,
                          calls |-> <<dbPrepare(r.query, FALSE)>>]
        ELSE [err |-> "nil",
              pstmt |-> <<[params |-> r.params, query |-> r.query]>>,
              calls |-> <<dbPrepare(r.query, TRUE)>>])

----------------------------------------------------------------------------
(* Record types of the calling program, as reflect shows them.             *)

\* the kinds checkFieldType accepts
checkFieldType(kind) ==
    kind \in {"string", "int", "int8", "int16", "int32", "int64",
              "float32", "float64", "bool"}

\* reflect.StructField: Name, Anonymous, PkgPath, the kind of Type, the db
\* and dbopt values of Tag, and (of a struct type) the fields of Type
StructField(name, anonymous, pkgPath, kind, db, dbopt, sub) ==
    [Name |-> name, Anonymous |-> anonymous, PkgPath |-> pkgPath,
     Kind |-> kind, db |-> db, dbopt |-> dbopt, Sub |-> sub]

fId == StructField(<<"I", "d">>, FALSE, <<>>, "int64", <<"i", "d">>, <<"i", "d", ",", "a", "u", "t", "o">>, <<>>)
fKey == StructField(<<"K", "e", "y">>, FALSE, <<>>, "int64", <<>>, <<"i", "d">>, <<>>)
fBool == StructField(<<"B", "o", "o", "l">>, FALSE, <<>>, "bool", <<"b">>, <<>>, <<>>)
fOther == StructField(<<"O", "t", "h", "e", "r">>, FALSE, <<>>, "string", <<"i", "d">>, <<>>, <<>>)
fCreated == StructField(<<"C", "r", "e", "a", "t", "e", "d">>, FALSE, <<>>, "int64", <<"c">>, <<"c", "r", "e", "a", "t", "e", "d">>, <<>>)
fStamp == StructField(<<"S", "t", "a", "m", "p">>, FALSE, <<>>, "int64", <<"s">>, <<"c", "r", "e", "a", "t", "e", "d", ",", " ", "m", "o", "d", "i", "f", "i", "e", "d">>, <<>>)
fTmp == StructField(<<"T", "m", "p">>, FALSE, <<>>, "string", <<"t", "m", "p">>, <<"s", "k", "i", "p">>, <<>>)
fHidden == StructField(<<"h", "i", "d", "d", "e", "n">>, FALSE, <<"d", "b", "h", "e", "l", "p", "e", "r">>, "string", <<>>, <<>>, <<>>)
fBlob == StructField(<<"B", "l", "o", "b">>, FALSE, <<>>, "slice", <<"b", "l", "o", "b">>, <<>>, <<>>)
fOdd == StructField(<<"O", "d", "d">>, FALSE, <<>>, "string", <<"o", "d", "d">>, <<"a", "u", "t", "o", ",", "f", "o", "o">>, <<>>)
fNum == StructField(<<"N", "u", "m">>, TRUE, <<>>, "int", <<>>, <<>>, <<>>)

fModified == StructField(<<"M", "o", "d", "i", "f", "i", "e", "d">>, FALSE, <<>>, "int64", <<"m">>, <<"m", "o", "d", "i", "f", "i", "e", "d">>, <<>>)

\* an embedded record with an unexported field and an embedded record
fInner == StructField(<<"i", "n", "n", "e", "r">>, TRUE, <<"d", "b", "h", "e", "l", "p", "e", "r">>, "struct", <<>>, <<>>,
                      <<StructField(<<"F", "l", "a", "g">>, FALSE, <<>>, "bool", <<"b">>, <<>>, <<>>)>>)
fEmbedded == StructField(<<"t", "e", "s", "t", "E", "m", "b", "e", "d", "d", "e", "d", "S", "t", "r", "u", "c", "t">>, TRUE, <<"d", "b", "h", "e", "l", "p", "e", "r">>, "struct", <<>>, <<>>,
                         <<StructField(<<"n", "o", "t", "e">>, FALSE, <<"d", "b", "h", "e", "l", "p", "e", "r">>, "string", <<>>, <<>>, <<>>),
                           fInner>>)

\* the fields a declaration of T is made of, in the order of declaration
FieldPool ==
    <<fId, fKey, fBool, fOther, fCreated, fModified, fStamp, fTmp, fHidden,
      fBlob, fOdd, fNum, fEmbedded>>

\* the declarations of T: up to MaxFields fields of the pool, in its order
StructDecls ==
    UNION {{[k \in 1..n |-> FieldPool[pick[k]]] :
                pick \in {q \in [1..n -> 1..Len(FieldPool)] :
                             \A j \in 1..(n - 1) : q[j] < q[j + 1]}}
           : n \in 0..MaxFields}

\* A reflect.Type is the sequence of its pointer stars and its name.
tT == <<"T">>
tInt == <<"int">>
tMap == <<"map[string]int">>
tAny == <<"interface{}">>
\* a second struct type, declared like T
tU == <<"U">>
PtrTo(t) == <<"*">> \o t
SliceOf(t) == <<"[]">> \o t

\* t.Kind()
Kind(t) ==
    IF t[1] = "*" THEN "ptr"
    ELSE IF t[1] = "[]" THEN "slice"
    ELSE IF t = tInt THEN "int"
    ELSE IF t = tMap THEN "map"
    ELSE IF t = tAny THEN "interface"
    ELSE "struct"

\* t.Elem() of a pointer type or a slice type
Elem(t) == Tail(t)

\* the fields of the struct type t: T and U are declared alike
FieldsOf(t, declT) == declT

\* An interface{} argument is nil (the empty sequence) or a value, of which
\* AddTable and RemoveTable read the dynamic type only.
Nil == <<>>
Values == {Nil, tT, PtrTo(tT), PtrTo(PtrTo(tT)), tInt}

\* typeOf without the step from a pointer to what it points to
typeOfPointer(i) ==
    IF i = Nil THEN [err |-> "errorNil", t |-> Nil]
    ELSE [err |-> "nil", t |-> i]

\* typeOf
typeOf(i) ==
    IF i = Nil THEN [err |-> "errorNil", t |-> Nil]
    ELSE IF Kind(i) # "ptr" THEN [err |-> "nil", t |-> i]
    ELSE [err |-> "nil", t |-> Elem(i)]

----------------------------------------------------------------------------
(* parseField: the field descriptors of one field of a record type.        *)

optAuto == <<"a", "u", "t", "o">>
optId == <<"i", "d">>
optCreated == <<"c", "r", "e", "a", "t", "e", "d">>
optModified == <<"m", "o", "d", "i", "f", "i", "e", "d">>
optSkip == <<"s", "k", "i", "p">>

\* the switch over the options of one field, from the k-th option on
RECURSIVE parseOptions(_, _, _)
parseOptions(f, opts, k) ==
    IF k > Len(opts) THEN [err |-> "nil", f |-> f]
    ELSE LET opt == opts[k]
         IN  IF opt = optAuto THEN parseOptions([f EXCEPT !.auto = TRUE], opts, k + 1)
             ELSE IF opt = optId THEN parseOptions([f EXCEPT !.id = TRUE], opts, k + 1)
             ELSE IF opt = optCreated
                  THEN parseOptions([f EXCEPT !.created = TRUE], opts, k + 1)
             ELSE IF opt = optModified
                  THEN parseOptions([f EXCEPT !.modified = TRUE], opts, k + 1)
             ELSE IF opt = optSkip THEN parseOptions(f, opts, k + 1)
             ELSE [err |-> "unknownOption", f |-> f]

\* the non-anonymous branch of parseField; index: field.Index[0]
parseLeaf(field, index) ==
    IF field.PkgPath # <<>> THEN [err |-> "nil", fields |-> <<>>]
    ELSE IF ~checkFieldType(field.Kind)
    THEN [err |-> "unsupportedType", fields |-> <<>>]
    ELSE LET column == IF field.db = <<>> THEN field.Name ELSE field.db
             f == [index |-> <<index>>, column |-> column, auto |-> FALSE,
                   id |-> FALSE, created |-> FALSE, modified |-> FALSE]
         IN  With(IF field.dbopt # <<>>
                  THEN parseOptions(f, Split(ReplaceEvery(field.dbopt, <<" ">>, <<>>),
                                             <<",">>), 1)
                  ELSE [err |-> "nil", f |-> f],
                  LAMBDA r :
                     IF r.err # "nil" THEN [err |-> r.err, fields |-> <<>>]
                     ELSE [err |-> "nil", fields |-> <<r.f>>])

\* sub-fields with the embedding field's index put behind theirs
suffixIndex(subFields, index) ==
    [k \in 1..Len(subFields) |->
        [subFields[k] EXCEPT !.index = @ \o <<index>>]]

\* sub-fields with the embedding field's index put in front of theirs
prefixIndex(subFields, index) ==
    [k \in 1..Len(subFields) |->
        [subFields[k] EXCEPT !.index = <<index>> \o @]]

RECURSIVE parseField(_, _)
RECURSIVE parseEmbedded(_, _, _, _)

\* the loop of parseField over the fields of an embedded struct, from its
\* i-th field (0-based) on
parseEmbedded(field, index, i, fields) ==
    IF i >= Len(field.Sub) THEN [err |-> "nil", fields |-> fields]
    ELSE With(parseField(field.Sub[i + 1], i), LAMBDA r :
             IF r.err # "nil" THEN [err |-> r.err, fields |-> <<>>]
             ELSE parseEmbedded(field, index, i + 1,
                                fields \o prefixIndex(r.fields, index)))

parseField(field, index) ==
    IF field.Anonymous
    THEN IF field.Kind # "struct"
         THEN [err |-> "anonymousNotStruct", fields |-> <<>>]
         ELSE parseEmbedded(field, index, 0, <<>>)
    ELSE parseLeaf(field, index)

----------------------------------------------------------------------------
(* newDbTable: the table descriptor of a record type.                      *)

\* a *dbField or a *Pstmt is a sequence of none (nil) or one (the object)
Ptr(x) == <<x>>

\* the dbTable newDbTable starts from
emptyTable(t, name) ==
    [structType |-> t, name |-> name, fields |-> <<>>,
     idField |-> Nil, createdField |-> Nil, modifiedField |-> Nil,
     numField |-> 0, numFieldAuto |-> 0,
     insertQuery |-> Nil, updateQuery |-> Nil, deleteQuery |-> Nil]

\* addField without the check "table already has an id field"
addFieldAnyId(tbl, f) ==
    IF f.column \in DOMAIN tbl.fields THEN [err |-> "sameColumn", tbl |-> tbl]
    ELSE LET t1 == [tbl EXCEPT !.numField = @ + 1,
                               !.fields = @ @@ (f.column :> f),
                               !.numFieldAuto = IF f.auto THEN @ + 1 ELSE @]
             t2 == IF f.id THEN [t1 EXCEPT !.idField = Ptr(f)] ELSE t1
         IN  IF f.created /\ t2.createdField # Nil
             THEN [err |-> "severalCreated", tbl |-> t2]
             ELSE LET t3 == IF f.created
                            THEN [t2 EXCEPT !.createdField = Ptr(f)]
                            ELSE t2
                  IN  IF f.modified /\ t3.modifiedField # Nil
                      THEN [err |-> "severalModified", tbl |-> t3]
                      ELSE [err |-> "nil",
                            tbl |-> IF f.modified
                                    THEN [t3 EXCEPT !.modifiedField = Ptr(f)]
                                    ELSE t3]

\* addField without the check "column is already in the map": the later
\* field takes the map entry of the earlier one
addFieldAnyColumn(tbl, f) ==
    LET t1 == [tbl EXCEPT !.numField = @ + 1,
                          !.fields = (f.column :> f) @@ @,
                          !.numFieldAuto = IF f.auto THEN @ + 1 ELSE @]
    IN  IF f.id /\ t1.idField # Nil THEN [err |-> "severalId", tbl |-> t1]
        ELSE LET t2 == IF f.id THEN [t1 EXCEPT !.idField = Ptr(f)] ELSE t1
             IN  IF f.created /\ t2.createdField # Nil
                 THEN [err |-> "severalCreated", tbl |-> t2]
                 ELSE LET t3 == IF f.created
                                THEN [t2 EXCEPT !.createdField = Ptr(f)]
                                ELSE t2
                      IN  IF f.modified /\ t3.modifiedField # Nil
                          THEN [err |-> "severalModified", tbl |-> t3]
                          ELSE [err |-> "nil",
                                tbl |-> IF f.modified
                                        THEN [t3 EXCEPT !.modifiedField = Ptr(f)]
                                        ELSE t3]

\* the body of the loop "for _, f := range fields" for one field f
addField(tbl, f) ==
    IF f.column \in DOMAIN tbl.fields THEN [err |-> "sameColumn", tbl |-> tbl]
    ELSE LET t1 == [tbl EXCEPT !.numField = @ + 1,
                               !.fields = @ @@ (f.column :> f),
                               !.numFieldAuto = IF f.auto THEN @ + 1 ELSE @]
         IN  IF f.id /\ t1.idField # Nil THEN [err |-> "severalId", tbl |-> t1]
             ELSE LET t2 == IF f.id THEN [t1 EXCEPT !.idField = Ptr(f)] ELSE t1
                  IN  IF f.created /\ t2.createdField # Nil
                      THEN [err |-> "severalCreated", tbl |-> t2]
                      ELSE LET t3 == IF f.created
                                     THEN [t2 EXCEPT !.createdField = Ptr(f)]
                                     ELSE t2
                           IN  IF f.modified /\ t3.modifiedField # Nil
                               THEN [err |-> "severalModified", tbl |-> t3]
                               ELSE [err |-> "nil",
                                     tbl |-> IF f.modified
                                             THEN [t3 EXCEPT !.modifiedField = Ptr(f)]
                                             ELSE t3]

\* the loop "for _, f := range fields" from the k-th field (1-based) on
RECURSIVE addFields(_, _, _)
addFields(tbl, fields, k) ==
    IF k > Len(fields) THEN [err |-> "nil", tbl |-> tbl]
    ELSE With(addField(tbl, fields[k]), LAMBDA r :
             IF r.err # "nil" THEN r ELSE addFields(r.tbl, fields, k + 1))

\* the loop "for i := 0; i < num; i++" of newDbTable from i on
RECURSIVE checkAllFields(_, _, _)
checkAllFields(tbl, decl, i) ==
    IF i >= Len(decl) THEN [err |-> "nil", tbl |-> tbl]
    ELSE With(parseField(decl[i + 1], i), LAMBDA p :
             IF p.err # "nil" THEN [err |-> p.err, tbl |-> tbl]
             ELSE With(addFields(tbl, p.fields, 1), LAMBDA r :
                      IF r.err # "nil" THEN r
                      ELSE checkAllFields(r.tbl, decl, i + 1)))

\* newDbTable up to the call of prepareStandardQueries
describeTable(t, declT, name) ==
    IF Kind(t) # "struct" THEN [err |-> "notStruct", tbl |-> emptyTable(t, name)]
    ELSE With(checkAllFields(emptyTable(t, name), FieldsOf(t, declT), 0), LAMBDA r :
             IF r.err # "nil" THEN r
             ELSE IF r.tbl.numField = 0 THEN [err |-> "noFields", tbl |-> r.tbl]
             ELSE IF r.tbl.idField = Nil THEN [err |-> "noId", tbl |-> r.tbl]
             ELSE r)

----------------------------------------------------------------------------
(* The three standard statements.                                          *)

getNamedPlaceholder(name) == <<":">> \o name

\* The orders in which "for col, f := range tbl.fields" may enumerate the
\* map: every order of its keys.
MapOrders(tbl) ==
    LET cols == DOMAIN tbl.fields
        n == Cardinality(cols)
    IN  {o \in [1..n -> cols] : \A j, k \in 1..n : j # k => o[j] # o[k]}

selectColumns(tbl, order, keep(_)) ==
    SelectSeq(order, LAMBDA col : keep(tbl.fields[col]))

\* getInsertFields when the map is enumerated in this order: the columns
\* (the placeholders are getNamedPlaceholder of each)
getInsertFields(tbl, order) ==
    selectColumns(tbl, order, LAMBDA f : ~f.auto)

\* getUpdateFields that leaves out the id and the auto columns only
getUpdateFieldsAndCreated(tbl, order) ==
    selectColumns(tbl, order, LAMBDA f : ~(f.id \/ f.auto))

\* getUpdateFields when the map is enumerated in this order
getUpdateFields(tbl, order) ==
    selectColumns(tbl, order, LAMBDA f : ~(f.id \/ f.auto \/ f.created))

holders(fields) == [k \in 1..Len(fields) |-> getNamedPlaceholder(fields[k])]

\* Postgresql.insertPostfix
insertPostfix(tbl) == <<"R", "E", "T", "U", "R", "N", "I", "N", "G", " ">> \o tbl.idField[1].column

\* fmt.Sprintf("INSERT INTO %s(%s) VALUES(%s) %s", ...)
insertText(tbl, dialect, fields) ==
    <<"I", "N", "S", "E", "R", "T", " ", "I", "N", "T", "O", " ">> \o tbl.name \o <<"(">> \o Join(fields, <<",", " ">>)
        \o <<")", " ", "V", "A", "L", "U", "E", "S", "(">> \o Join(holders(fields), <<",", " ">>) \o <<")", " ">>
        \o (IF hasInsertPostfix(dialect) THEN insertPostfix(tbl) ELSE <<>>)

\* updateFields[i] = fmt.Sprintf("%s = %s", f, ph[i])
assignments(fields) ==
    [k \in 1..Len(fields) |-> fields[k] \o <<" ", "=", " ">> \o holders(fields)[k]]

\* fmt.Sprintf("UPDATE %s SET %s WHERE %s = %s", ...)
updateText(tbl, fields) ==
    <<"U", "P", "D", "A", "T", "E", " ">> \o tbl.name \o <<" ", "S", "E", "T", " ">> \o Join(assignments(fields), <<",", " ">>)
        \o <<" ", "W", "H", "E", "R", "E", " ">> \o tbl.idField[1].column \o <<" ", "=", " ">>
        \o getNamedPlaceholder(tbl.idField[1].column)

\* fmt.Sprintf("DELETE FROM %s WHERE %s = %s", ...)
deleteText(tbl) ==
    <<"D", "E", "L", "E", "T", "E", " ", "F", "R", "O", "M", " ">> \o tbl.name \o <<" ", "W", "H", "E", "R", "E", " ">> \o tbl.idField[1].column \o <<" ", "=", " ">>
        \o getNamedPlaceholder(tbl.idField[1].column)

\* prepareStandardQueries; insertFields, updateFields: what getInsertFields
\* and getUpdateFields returned; ok[k]: whether the driver accepts the k-th
\* statement. Returns the error, the table and the driver calls made.
prepareStandardQueries(tbl, dialect, insertFields, updateFields, ok) ==
    With(Prepare(dialect, insertText(tbl, dialect, insertFields), ok[1]), LAMBDA ins :
        IF ins.err # "nil" THEN [err |-> ins.err, tbl |-> tbl, calls |-> ins.calls]
        ELSE With(Prepare(dialect, updateText(tbl, updateFields), ok[2]), LAMBDA upd :
            IF upd.err # "nil"
            THEN [err |-> upd.err, tbl |-> [tbl EXCEPT !.insertQuery = ins.pstmt],
                  calls |-> ins.calls \o upd.calls]
            ELSE With(Prepare(dialect, deleteText(tbl), ok[3]), LAMBDA del :
                [err |-> del.err,
                 tbl |-> [tbl EXCEPT !.insertQuery = ins.pstmt,
                                     !.updateQuery = upd.pstmt,
                                     !.deleteQuery = del.pstmt],
                 calls |-> ins.calls \o upd.calls \o del.calls])))

\* newDbTable(t, name): the error, the *dbTable (nil on error) and the
\* driver calls made
newDbTable(t, declT, name, dialect, insertFields, updateFields, ok) ==
    With(describeTable(t, declT, name), LAMBDA d :
        IF d.err # "nil" THEN [err |-> d.err, tbl |-> Nil, calls |-> <<>>]
        ELSE With(prepareStandardQueries(d.tbl, dialect, insertFields, updateFields, ok),
                  LAMBDA q :
            IF q.err # "nil" THEN [err |-> q.err, tbl |-> Nil, calls |-> q.calls]
            ELSE [err |-> "nil", tbl |-> Ptr(q.tbl), calls |-> q.calls]))

\* what getInsertFields, getUpdateFields can return for the table that
\* newDbTable(t, name) describes (one list when it describes none)
InsertFieldsOf(t, declT, name) ==
    With(describeTable(t, declT, name), LAMBDA d :
        IF d.err # "nil" THEN {<<>>}
        ELSE {getInsertFields(d.tbl, o) : o \in MapOrders(d.tbl)})

UpdateFieldsOf(t, declT, name) ==
    With(describeTable(t, declT, name), LAMBDA d :
        IF d.err # "nil" THEN {<<>>}
        ELSE {getUpdateFields(d.tbl, o) : o \in MapOrders(d.tbl)})

----------------------------------------------------------------------------
(* The registry: AddTable, RemoveTable.                                    *)

TableNames == {<<>>, <<"t">>}

Returned(op, i, name, err, removed) ==
    [op |-> op, i |-> i, name |-> name, err |-> err, removed |-> removed,
     panicked |-> FALSE]

\* AddTable that puts the table into the map as soon as it is described,
\* before its statements are prepared
addTableEarly(tbls, declT, dialect, i, name, insertFields, updateFields, ok) ==
    LET ty == typeOf(i)
    IN  IF ty.err # "nil" THEN [err |-> ty.err, tables |-> tbls, calls |-> <<>>]
        ELSE IF ty.t \in DOMAIN tbls
        THEN [err |-> "alreadyAssigned", tables |-> tbls, calls |-> <<>>]
        ELSE IF name = <<>>
        THEN [err |-> "emptyName", tables |-> tbls, calls |-> <<>>]
        ELSE With(describeTable(ty.t, declT, name), LAMBDA d :
            IF d.err # "nil" THEN [err |-> d.err, tables |-> tbls, calls |-> <<>>]
            ELSE With(prepareStandardQueries(d.tbl, dialect, insertFields,
                                             updateFields, ok), LAMBDA q :
                [err |-> q.err, tables |-> tbls @@ (ty.t :> q.tbl),
                 calls |-> q.calls]))

\* AddTable(i, name) with what the map enumerations and the driver do
addTable(tbls, declT, dialect, i, name, insertFields, updateFields, ok) ==
    LET ty == typeOf(i)
    IN  IF ty.err # "nil" THEN [err |-> ty.err, tables |-> tbls, calls |-> <<>>]
        ELSE IF ty.t \in DOMAIN tbls
        THEN [err |-> "alreadyAssigned", tables |-> tbls, calls |-> <<>>]
        ELSE IF name = <<>>
        THEN [err |-> "emptyName", tables |-> tbls, calls |-> <<>>]
        ELSE With(newDbTable(ty.t, declT, name, dialect, insertFields, updateFields, ok),
                  LAMBDA n :
            IF n.err # "nil"
            THEN [err |-> n.err, tables |-> tbls, calls |-> n.calls]
            ELSE [err |-> "nil", tables |-> tbls @@ (ty.t :> n.tbl[1]),
                  calls |-> n.calls])

\* What the driver does with the Prepare calls of one AddTable: it accepts
\* them all, or rejects one of them (after which no further call is made).
DriverOutcomes == {[k \in 1..3 |-> k # rejected] : rejected \in 0..3}

AddTable(i, name) ==
    LET t == typeOf(i).t
        known == i # Nil /\ t \notin DOMAIN tables /\ name # <<>>
    IN  \E insertFields \in IF known THEN InsertFieldsOf(t, structT, name) ELSE {<<>>},
           updateFields \in IF known THEN UpdateFieldsOf(t, structT, name) ELSE {<<>>},
           ok \in DriverOutcomes :
            \E r \in {addTable(tables, structT, sqlDialect, i, name,
                                insertFields, updateFields, ok)} :
                /\ tables' = r.tables
                /\ drv' = r.calls
                /\ ret' = Returned("AddTable", i, name, r.err, FALSE)
                /\ UNCHANGED <<structT, sqlDialect, pstmt, arg, obj, rows>>
                /\ UNCHANGED <<Db, selectQueries, threads>>

\* RemoveTable that empties the registry when it finds the type
removeTableAll(tbls, i) ==
    IF i = Nil THEN [tables |-> tbls, removed |-> FALSE]
    ELSE LET ty == typeOf(i)
         IN  IF ty.err # "nil" THEN [tables |-> tbls, removed |-> FALSE]
             ELSE IF ty.t \in DOMAIN tbls
             THEN [tables |-> <<>>, removed |-> TRUE]
             ELSE [tables |-> tbls, removed |-> FALSE]

\* RemoveTable(i): the registry afterwards and the boolean returned
removeTable(tbls, i) ==
    IF i = Nil THEN [tables |-> tbls, removed |-> FALSE]
    ELSE LET ty == typeOf(i)
         IN  IF ty.err # "nil" THEN [tables |-> tbls, removed |-> FALSE]
             ELSE IF ty.t \in DOMAIN tbls
             THEN [tables |-> [u \in DOMAIN tbls \ {ty.t} |-> tbls[u]],
                   removed |-> TRUE]
             ELSE [tables |-> tbls, removed |-> FALSE]

\* removed := dbh.RemoveTable(i); the select-by-column statements kept for
\* a table go with its descriptor
RemoveTable(i) ==
    \E r \in {removeTable(tables, i)} :
        /\ tables' = r.tables
        /\ drv' = <<>>
        /\ ret' = Returned("RemoveTable", i, Nil, "nil", r.removed)
        /\ selectQueries' = [key \in {k \in DOMAIN selectQueries :
                                         k[1] \in DOMAIN r.tables} |->
                                 selectQueries[key]]
        /\ UNCHANGED <<structT, sqlDialect, pstmt, arg, obj, rows>>
        /\ UNCHANGED <<Db, threads>>

\* New(db, sqlDialect), for a program that declares T as structT
InitRegistry ==
    /\ structT \in StructDecls
    /\ sqlDialect \in Dialects
    /\ tables = <<>>
    /\ pstmt = Nil
    /\ arg = Nil
    /\ obj = Nil
    /\ rows = Nil
    /\ ret = Returned("New", Nil, Nil, "nil", FALSE)
    /\ drv = <<>>
    /\ Db = <<>>
    /\ selectQueries = <<>>
    /\ threads = <<>>

NextRegistry ==
    \/ \E i \in Values, name \in TableNames : AddTable(i, name)
    \/ \E i \in Values : RemoveTable(i)

SpecRegistry == InitRegistry /\ [][NextRegistry]_vars

----------------------------------------------------------------------------
(* What a declaration of T says, read off the declaration itself.          *)

\* the exported named fields of a declaration, those of its embedded
\* records included, at any depth
RECURSIVE Leaves(_)
Leaves(decl) ==
    IF decl = <<>> THEN <<>>
    ELSE (IF Head(decl).Anonymous
          THEN IF Head(decl).Kind = "struct" THEN Leaves(Head(decl).Sub) ELSE <<>>
          ELSE IF Head(decl).PkgPath # <<>> THEN <<>> ELSE <<Head(decl)>>)
         \o Leaves(Tail(decl))

\* whether every embedded field of a declaration is a record, at any depth
RECURSIVE EmbedsRecordsOnly(_)
EmbedsRecordsOnly(decl) ==
    \A k \in 1..Len(decl) :
        decl[k].Anonymous =>
            decl[k].Kind = "struct" /\ EmbedsRecordsOnly(decl[k].Sub)

\* the column a field is mapped to: its db tag, else its name
Column(f) == IF f.db = <<>> THEN f.Name ELSE f.db

\* the words of the dbopt tag of a field
Options(f) ==
    IF f.dbopt = <<>> THEN {}
    ELSE With(Split(ReplaceEvery(f.dbopt, <<" ">>, <<>>), <<",">>), LAMBDA words :
             {words[k] : k \in 1..Len(words)})

\* the leaves of a declaration that carry an option
Claiming(decl, opt) ==
    With(Leaves(decl), LAMBDA leaves :
        {k \in 1..Len(leaves) : opt \in Options(leaves[k])})

\* whether two leaves of a declaration are mapped to one column
SharesColumn(decl) ==
    With(Leaves(decl), LAMBDA leaves :
        \E j, k \in 1..Len(leaves) :
            j # k /\ Column(leaves[j]) = Column(leaves[k]))

\* the errors newDbTable reports about a declaration
DeclarationErrors ==
    {"notStruct", "unsupportedType", "unknownOption", "anonymousNotStruct",
     "sameColumn", "severalId", "severalCreated", "severalModified",
     "noFields", "noId"}

\* the last call was AddTable of T, by value or by pointer, under a name
AddedT == ret.op = "AddTable" /\ ret.i \in {tT, PtrTo(tT)} /\ ret.name # <<>>

\* the elements of a sequence
Range(s) == {s[k] : k \in 1..Len(s)}

----------------------------------------------------------------------------
(* Properties of the registry.                                             *)

\* C1: an AddTable that returns an error, whatever the error (a nil or
\* non-record type, an empty name, a declaration error, the driver refusing
\* any of the three statements), leaves the map from types to tables as it
\* was before the call.
C1_FailedAddTableKeepsRegistry ==
    [][(ret'.op = "AddTable" /\ ret'.err # "nil") => tables' = tables]_vars

\* C1: AddTable failed at the third statement, after two were prepared
C1_FailedAtThirdStatement ==
    /\ ret.op = "AddTable" /\ ret.err = "driver"
    /\ Len(drv) = 3 /\ drv[1].ok /\ drv[2].ok /\ ~drv[3].ok
    /\ tables = <<>>

\* a role of a table: the columns flagged with it, the cached reference
RoleKept(fields, flagged, cached, required) ==
    /\ Cardinality(flagged) <= 1
    /\ required => flagged # {}
    /\ IF flagged = {} THEN cached = Nil
       ELSE \A c \in flagged : cached = Ptr(fields[c])

\* C2: every registered table has exactly one field flagged id, at most one
\* flagged created and at most one flagged modified, and idField,
\* createdField and modifiedField are those fields (nil when there is
\* none); and AddTable of a declaration in which no leaf or several leaves
\* claim id, or several claim created or modified, fails with a declaration
\* error, registers nothing and prepares nothing.
C2_OneFieldPerRole ==
    /\ \A t \in DOMAIN tables :
         With(tables[t], LAMBDA tbl :
           /\ RoleKept(tbl.fields, {c \in DOMAIN tbl.fields : tbl.fields[c].id},
                       tbl.idField, TRUE)
           /\ RoleKept(tbl.fields, {c \in DOMAIN tbl.fields : tbl.fields[c].created},
                       tbl.createdField, FALSE)
           /\ RoleKept(tbl.fields, {c \in DOMAIN tbl.fields : tbl.fields[c].modified},
                       tbl.modifiedField, FALSE))
    /\ ( /\ AddedT
         /\ \/ Cardinality(Claiming(structT, optId)) # 1
            \/ Cardinality(Claiming(structT, optCreated)) > 1
            \/ Cardinality(Claiming(structT, optModified)) > 1 )
       => ret.err \in DeclarationErrors /\ tables = <<>> /\ drv = <<>>

\* C2: a registered table with a created and a modified field
C2_TableWithStamps ==
    \E t \in DOMAIN tables :
        /\ tables[t].idField # Nil
        /\ tables[t].createdField # Nil
        /\ tables[t].modifiedField # Nil

\* C3: the column map of every registered table has numField entries and
\* the leaves of its declaration are mapped to distinct columns; AddTable of
\* a declaration with two leaves on one column, embedded records included,
\* fails with a declaration error, registers nothing and prepares nothing.
C3_UniqueColumns ==
    /\ \A t \in DOMAIN tables :
         /\ Cardinality(DOMAIN tables[t].fields) = tables[t].numField
         /\ ~SharesColumn(structT)
    /\ (AddedT /\ SharesColumn(structT))
       => ret.err \in DeclarationErrors /\ tables = <<>> /\ drv = <<>>

\* C3: AddTable refused a column of an embedded record that a field of the
\* record itself has too
C3_SameColumnEmbedded ==
    /\ AddedT /\ ret.err = "sameColumn"
    /\ \E k \in 1..Len(structT) : structT[k].Anonymous

\* C4: AddTable of T while T is registered, T given by value or by pointer,
\* returns the already-assigned error, prepares nothing and leaves the map
\* and the registered table as they were; T is the only key T is ever
\* registered under.
C4_RegisteredOnce ==
    [][/\ DOMAIN tables' \subseteq {tT}
       /\ (ret'.op = "AddTable" /\ ret'.i \in {tT, PtrTo(tT)} /\ tT \in DOMAIN tables)
          => ret'.err = "alreadyAssigned" /\ tables' = tables /\ drv' = <<>>]_vars

\* C4: AddTable of a pointer to T was refused while T was registered
C4_PointerRefused ==
    /\ ret.op = "AddTable" /\ ret.i = PtrTo(tT) /\ ret.name # <<>>
    /\ ret.err = "alreadyAssigned"
    /\ tT \in DOMAIN tables

\* the columns of the leaves of a declaration tagged skip
Skipped(decl) ==
    With(Leaves(decl), LAMBDA leaves :
        {Column(leaves[k]) : k \in Claiming(decl, optSkip)})

\* C5: a field tagged skip has no descriptor: in every registered table its
\* column is not in the column map, numField counts the leaves not tagged
\* skip, and the column is a parameter of neither the insert nor the update
\* statement.
C5_SkipOmitted ==
    \A t \in DOMAIN tables :
        /\ \A c \in Skipped(structT) :
             /\ c \notin DOMAIN tables[t].fields
             /\ c \notin Range(tables[t].insertQuery[1].params)
             /\ c \notin Range(tables[t].updateQuery[1].params)
        /\ tables[t].numField =
             Len(Leaves(structT)) - Cardinality(Claiming(structT, optSkip))

\* C5: a registered table whose column map, insert and update parameters
\* hold the column of a field tagged skip
C5_SkippedColumnRegistered ==
    \E t \in DOMAIN tables : \E c \in Skipped(structT) :
        /\ c \in DOMAIN tables[t].fields
        /\ c \in Range(tables[t].insertQuery[1].params)
        /\ c \in Range(tables[t].updateQuery[1].params)

\* a valid declaration: embedded fields are records, leaves have supported
\* types, known options and distinct columns, exactly one claims id, at
\* most one created, at most one modified
ValidDecl(decl) ==
    /\ EmbedsRecordsOnly(decl)
    /\ \A f \in Range(Leaves(decl)) :
         /\ checkFieldType(f.Kind)
         /\ Options(f) \subseteq {optAuto, optId, optCreated, optModified, optSkip}
    /\ ~SharesColumn(decl)
    /\ Cardinality(Claiming(decl, optId)) = 1
    /\ Cardinality(Claiming(decl, optCreated)) <= 1
    /\ Cardinality(Claiming(decl, optModified)) <= 1

\* C6: AddTable of a valid declaration with N leaves not tagged skip, T not
\* registered before and the driver accepting what it is sent, succeeds
\* with a table of N columns whose insert, update and delete statements are
\* prepared, the insert statement with a column list and the update
\* statement with an assignment list that are not empty.
C6_ValidDeclRegisters ==
    ( /\ AddedT /\ ValidDecl(structT)
      /\ ret.err # "alreadyAssigned"
      /\ \A k \in 1..Len(drv) : drv[k].ok )
    => /\ ret.err = "nil" /\ tT \in DOMAIN tables
       /\ With(tables[tT], LAMBDA tbl :
            /\ tbl.numField =
                 Len(Leaves(structT)) - Cardinality(Claiming(structT, optSkip))
            /\ Cardinality(DOMAIN tbl.fields) = tbl.numField
            /\ tbl.insertQuery # Nil /\ tbl.updateQuery # Nil /\ tbl.deleteQuery # Nil
            /\ Index(tbl.insertQuery[1].query, <<"(", ")">>) = -1
            /\ Index(tbl.updateQuery[1].query, <<"S", "E", "T", " ", " ", "W", "H", "E", "R", "E">>) = -1)

\* C6: a valid declaration (the id field alone) registered with an insert
\* statement that names no column and an update statement that assigns none
C6_EmptyLists ==
    /\ AddedT /\ ValidDecl(structT) /\ ret.err = "nil"
    /\ Claiming(structT, optSkip) = {}
    /\ Index(tables[tT].insertQuery[1].query, <<"(", ")">>) # -1
    /\ Index(tables[tT].updateQuery[1].query, <<"S", "E", "T", " ", " ", "W", "H", "E", "R", "E">>) # -1

----------------------------------------------------------------------------
(* Prepare called by the program on a query template of its own.           *)

\* the characters of the templates: a colon, two letters, and the three
\* kinds of character that end a name
Alphabet == {":", "a", "b", " ", ",", ")"}

\* the query by id of the README, on a table named t
SelectById == <<"S", "E", "L", "E", "C", "T", " ", "*", " ", "F", "R", "O", "M", " ", "t", " ", "W", "H", "E", "R", "E", " ", "i", "d", " ", "=", " ", ":", "i", "d">>

\* the templates the caller passes: all of up to MaxLen characters, and
\* SelectById
Templates == UNION {[1..n -> Alphabet] : n \in 0..MaxLen} \cup {SelectById}

\* pstmt, err := dbh.Prepare(arg), the driver accepting the statement or not
CallPrepare ==
    \E ok \in BOOLEAN :
        \E r \in {Prepare(sqlDialect, arg, ok)} :
            /\ pstmt' = r.pstmt
            /\ drv' = r.calls
            /\ ret' = Returned("Prepare", Nil, Nil, r.err, FALSE)
            /\ UNCHANGED <<structT, sqlDialect, tables, arg, obj, rows>>
            /\ UNCHANGED <<Db, selectQueries, threads>>

\* New(db, sqlDialect) in a program about to prepare the template arg
InitPrepare ==
    /\ structT = <<>>
    /\ sqlDialect \in Dialects
    /\ tables = <<>>
    /\ pstmt = Nil
    /\ arg \in Templates
    /\ obj = Nil
    /\ rows = Nil
    /\ ret = Returned("New", Nil, Nil, "nil", FALSE)
    /\ drv = <<>>
    /\ Db = <<>>
    /\ selectQueries = <<>>
    /\ threads = <<>>

NextPrepare == CallPrepare

SpecPrepare == InitPrepare /\ [][NextPrepare]_vars

\* the last character (1-based) of the placeholder whose colon is at
NameEnd(s, at) ==
    CHOOSE e \in at..Len(s) :
        /\ \A j \in (at + 1)..e : IsNameChar(s[j])
        /\ e = Len(s) \/ ~IsNameChar(s[e + 1])

\* A template read once from left to right, from its character at (1-based)
\* on, k placeholders having been read: a character outside a placeholder
\* is kept; a placeholder, from its colon to the end of its name, becomes
\* token k + 1 of the dialect and its name parameter k + 1.
RECURSIVE ReadOnce(_, _, _, _)
ReadOnce(dialect, s, at, k) ==
    IF at > Len(s) THEN [query |-> <<>>, params |-> <<>>]
    ELSE IF s[at] # ":"
    THEN With(ReadOnce(dialect, s, at + 1, k), LAMBDA r :
             [query |-> <<s[at]>> \o r.query, params |-> r.params])
    ELSE With(ReadOnce(dialect, s, NameEnd(s, at) + 1, k + 1), LAMBDA r :
             [query |-> phNext(dialect, k + 1) \o r.query,
              params |-> <<SubSeq(s, at + 1, NameEnd(s, at))>> \o r.params])

\* C7: the statement Prepare compiles from a template is the template read
\* once from left to right: the k-th placeholder replaced where it stands by
\* the k-th token of a generator that starts anew with the call, the k-th
\* parameter name the k-th placeholder without its colon, a name that
\* occurs twice taking two slots, all other text kept; a template with a
\* colon that no name follows is refused before the driver is called. With
\* the $n dialect the template SelectById becomes
\* "SELECT * FROM t WHERE id = $1" with the names ["id"].
C7_LockStep ==
    ret.op = "Prepare" =>
        With(ReadOnce(sqlDialect, arg, 1, 0), LAMBDA read :
            IF <<>> \in Range(read.params)
            THEN ret.err = "wrongPlaceholder" /\ pstmt = Nil /\ drv = <<>>
            ELSE /\ Len(drv) = 1
                 /\ ret.err \in {"nil", "driver"}
                 /\ ret.err = "driver" => pstmt = Nil
                 /\ ret.err = "nil" =>
                      /\ pstmt = Ptr([params |-> read.params, query |-> read.query])
                      /\ (arg = SelectById /\ sqlDialect = "Postgresql") =>
                           /\ pstmt[1].query = <<"S", "E", "L", "E", "C", "T", " ", "*", " ", "F", "R", "O", "M", " ", "t", " ", "W", "H", "E", "R", "E", " ", "i", "d", " ", "=", " ", "$", "1">>
                           /\ pstmt[1].params = <<<<"i", "d">>>>)

\* C7: a template that names a twice, compiled for the $n dialect
C7_SameNameTwice ==
    /\ ret.op = "Prepare" /\ ret.err = "nil"
    /\ sqlDialect = "Postgresql"
    /\ arg = <<":", "a", ",", ":", "a">>
    /\ pstmt[1].params = <<<<"a">>, <<"a">>>>
    /\ pstmt[1].query = <<"$", "1", ",", "$", "2">>

----------------------------------------------------------------------------
(* Pstmt: binding the params of Exec and Query.                            *)

\* the names of statement parameters
Names == {<<"a">>, <<"b">>}

\* a map without entries; an entry is a sequence of none or one value
NoEntries == [name \in Names |-> Nil]

\* a Go value as reflect shows it: its kind, what tells it from the other
\* values of the kind and, of a map, its entries
Value(kind, n) == [kind |-> kind, n |-> n, at |-> NoEntries]

\* a map[string]interface{} with these entries
MapValue(entries) == [kind |-> "map", n |-> 0, at |-> entries]

\* the values a map of the caller holds
Elements == {Value("int", 1), Value("int", 2)}

\* the params argument: nil, a map from names to values, or a bare value of
\* a supported kind (int, string) or of another kind (struct, slice)
Params ==
    {Nil}
    \cup {Ptr(MapValue(entries)) :
            entries \in [Names -> {Nil} \cup {Ptr(e) : e \in Elements}]}
    \cup {Ptr(Value(kind, 0)) : kind \in {"int", "string", "struct", "slice"}}

\* what getValues returns: the error, the slice of values (nil, or one
\* slice) and whether the call ended in a run-time panic instead
Bound(err, values, panicked) ==
    [err |-> err, values |-> values, panicked |-> panicked]

\* getValues with the values of a map put in from the last slot backwards
getValuesBackwards(stmt, params) ==
    LET num == Len(stmt.params)
    IN  IF params = Nil
        THEN IF num = 0 THEN Bound("nil", Nil, FALSE)
             ELSE Bound("missingAll", Nil, FALSE)
        ELSE IF params[1].kind = "map"
        THEN IF \E i \in 1..num : params[1].at[stmt.params[i]] = Nil
             THEN Bound("missingNamed", Nil, FALSE)
             ELSE Bound("nil",
                        Ptr([i \in 1..num |-> params[1].at[stmt.params[num + 1 - i]][1]]),
                        FALSE)
        ELSE IF num > 1 THEN Bound("arity", Nil, FALSE)
        ELSE IF ~checkFieldType(params[1].kind) THEN Bound("wrongType", Nil, FALSE)
        ELSE IF num = 0 THEN Bound("nil", Nil, TRUE)
        ELSE Bound("nil", Ptr(<<params[1]>>), FALSE)

\* getValues without the check of num when params is nil
getValuesNilAlways(stmt, params) ==
    LET num == Len(stmt.params)
    IN  IF params = Nil THEN Bound("nil", Nil, FALSE)
        ELSE IF params[1].kind = "map"
        THEN IF \E i \in 1..num : params[1].at[stmt.params[i]] = Nil
             THEN Bound("missingNamed", Nil, FALSE)
             ELSE Bound("nil",
                        Ptr([i \in 1..num |-> params[1].at[stmt.params[i]][1]]),
                        FALSE)
        ELSE IF num > 1 THEN Bound("arity", Nil, FALSE)
        ELSE IF ~checkFieldType(params[1].kind) THEN Bound("wrongType", Nil, FALSE)
        ELSE IF num = 0 THEN Bound("nil", Nil, TRUE)
        ELSE Bound("nil", Ptr(<<params[1]>>), FALSE)

\* Pstmt.getValues(params). With a bare value of a supported kind and a
\* statement without parameters, "values[0] = ..." indexes a slice of
\* length 0: the call panics (index out of range).
getValues(stmt, params) ==
    LET num == Len(stmt.params)
    IN  IF params = Nil
        THEN IF num = 0 THEN Bound("nil", Nil, FALSE)
             ELSE Bound("missingAll", Nil, FALSE)
        ELSE IF params[1].kind = "map"
        THEN IF \E i \in 1..num : params[1].at[stmt.params[i]] = Nil
             THEN Bound("missingNamed", Nil, FALSE)
             ELSE Bound("nil",
                        Ptr([i \in 1..num |-> params[1].at[stmt.params[i]][1]]),
                        FALSE)
        ELSE IF num > 1 THEN Bound("arity", Nil, FALSE)
        ELSE IF ~checkFieldType(params[1].kind) THEN Bound("wrongType", Nil, FALSE)
        ELSE IF num = 0 THEN Bound("nil", Nil, TRUE)
        ELSE Bound("nil", Ptr(<<params[1]>>), FALSE)

\* a call of a primitive of database/sql as the log records it: the
\* primitive, the values passed and whether it succeeded
dbCall(op, args, ok) == [op |-> op, args |-> args, ok |-> ok]

\* "values..." of the calls stmt.Exec and stmt.Query
Spread(values) == IF values # Nil THEN values[1] ELSE <<>>

\* what Exec and Query return: the count, the error, and whether the call
\* ended in a panic instead of returning
Outcome(op, num, err, panicked) ==
    [op |-> op, num |-> num, err |-> err, panicked |-> panicked]

\* exec with the test of getValues' error put after the call of stmt.Exec
execThenTest(stmt, params, ok) ==
    With(getValues(stmt, params), LAMBDA g :
        IF g.panicked THEN [err |-> "nil", panicked |-> TRUE, calls |-> <<>>]
        ELSE IF g.err # "nil"
        THEN [err |-> g.err, panicked |-> FALSE,
              calls |-> <<dbCall("Exec", Spread(g.values), ok)>>]
        ELSE [err |-> IF ok THEN "nil" ELSE "driver", panicked |-> FALSE,
              calls |-> <<dbCall("Exec", Spread(g.values), ok)>>])

\* Pstmt.exec(params); ok: whether the driver executes the statement
exec(stmt, params, ok) ==
    With(getValues(stmt, params), LAMBDA g :
        IF g.panicked THEN [err |-> "nil", panicked |-> TRUE, calls |-> <<>>]
        ELSE IF g.err # "nil"
        THEN [err |-> g.err, panicked |-> FALSE, calls |-> <<>>]
        ELSE [err |-> IF ok THEN "nil" ELSE "driver", panicked |-> FALSE,
              calls |-> <<dbCall("Exec", Spread(g.values), ok)>>])

\* what res.RowsAffected() may give: an error (none), or the number
RowsAffected == {Nil, <<0>>, <<1>>}

\* Pstmt.Exec(params)
Exec(stmt, params, ok, affected) ==
    With(exec(stmt, params, ok), LAMBDA e :
        IF e.panicked \/ e.err # "nil"
        THEN [ret |-> Outcome("Exec", 0, e.err, e.panicked), calls |-> e.calls]
        ELSE IF affected = Nil
        THEN [ret |-> Outcome("Exec", -1, "nil", FALSE), calls |-> e.calls]
        ELSE [ret |-> Outcome("Exec", affected[1], "nil", FALSE), calls |-> e.calls])

\* the column of a query that selects one computed value
SelectCount == <<"n">>

\* the destination argument i of Query: nil, or a value of which Query reads
\* the type and, of a pointer, whether it is nil
Dest(type, null) == Ptr([type |-> type, null |-> null])

\* the destinations drawn for a statement of the program's own: nil, an
\* int, a nil *int, a *int, a **int
Dests ==
    {Nil, Dest(tInt, FALSE), Dest(PtrTo(tInt), TRUE), Dest(PtrTo(tInt), FALSE),
     Dest(PtrTo(PtrTo(tInt)), FALSE)}

\* dbh.getTable(t)
getTable(tbls, t) ==
    IF t \in DOMAIN tbls THEN [err |-> "nil", tbl |-> Ptr(tbls[t])]
    ELSE [err |-> "noTable", tbl |-> Nil]

\* The paths (Index chains) of the exported named fields of a struct type,
\* those of its embedded structs included: what FieldByIndex can be asked.
RECURSIVE FieldPaths(_)
FieldPaths(decl) ==
    UNION {IF decl[k].Anonymous
           THEN IF decl[k].Kind = "struct"
                THEN {<<k - 1>> \o p : p \in FieldPaths(decl[k].Sub)}
                ELSE {}
           ELSE IF decl[k].PkgPath # <<>> THEN {} ELSE {<<k - 1>>}
           : k \in 1..Len(decl)}

\* reflect.New(returnType): a record with every field zero, or a zero int
ZeroOf(t, declT) ==
    IF Kind(t) = "struct" THEN [p \in FieldPaths(FieldsOf(t, declT)) |-> 0] ELSE 0

\* What the driver does with one query: whether stmt.Query succeeds, the
\* column names rows.Columns reports (none: it fails), how many rows the
\* result has, and the row at which rows.Scan fails for a reason of the
\* driver's (0: at none). Every value of row k is k when the result gives
\* no data of its own.
QueryOutcome(query, columns, count, bad) ==
    [query |-> query, columns |-> columns, rows |-> count, bad |-> bad,
     data |-> Nil]

\* the result of a query that succeeds with these rows, each a sequence of
\* one value per column
StoredRows(columns, data) ==
    [query |-> TRUE, columns |-> Ptr(columns), rows |-> Len(data), bad |-> 0,
     data |-> Ptr(data)]

\* the value of column j of row k of a result
cell(out, k, j) == IF out.data = Nil THEN k ELSE out.data[1][k][j]

\* The scan destinations of one row for a record: "fields" has numField
\* slots and slot j gets the address (the path) of the field of column j.
\* A column without descriptor makes tbl.fields[col] nil, and more columns
\* than numField overrun "fields": the loop panics.
rowFields(tbl, columns) ==
    IF \E j \in 1..Len(columns) :
           columns[j] \notin DOMAIN tbl.fields \/ j > tbl.numField
    THEN [panicked |-> TRUE, fields |-> <<>>]
    ELSE [panicked |-> FALSE,
          fields |-> [j \in 1..tbl.numField |->
                         IF j <= Len(columns) THEN Ptr(tbl.fields[columns[j]].index)
                         ELSE Nil]]

\* rows.Scan(dest...) of row k: database/sql refuses a number of
\* destinations other than the number of columns and a destination it
\* cannot convert to (a map); the driver may fail (before anything is
\* stored); else destination j receives column j
scanRow(elem, kind, dests, columns, k, out) ==
    IF Len(dests) # Len(columns) \/ out.bad = k \/ kind = "map"
    THEN [ok |-> FALSE, elem |-> elem]
    ELSE [ok |-> TRUE,
          elem |-> IF dests = <<Nil>> THEN cell(out, k, 1)
                   ELSE [p \in DOMAIN elem |->
                            IF \E j \in 1..Len(dests) : dests[j] = Ptr(p)
                            THEN cell(out, k, CHOOSE j \in 1..Len(dests) :
                                                  dests[j] = Ptr(p))
                            ELSE elem[p]]]

\* One turn of the loop "for rows.Next()" after rows.Next() returned true:
\* elem is what the row is mapped into. A scalar is scanned through its own
\* address, written <<Nil>> here (it has no path).
mapRow(tbl, elem, kind, columns, k, out) ==
    IF tbl # Nil
    THEN With(rowFields(tbl[1], columns), LAMBDA f :
            IF f.panicked
            THEN [panicked |-> TRUE, ok |-> FALSE, elem |-> elem, calls |-> <<>>]
            ELSE With(scanRow(elem, kind, f.fields, columns, k, out), LAMBDA s :
                    [panicked |-> FALSE, ok |-> s.ok, elem |-> s.elem,
                     calls |-> <<dbCall("Scan", f.fields, s.ok)>>]))
    ELSE With(scanRow(elem, kind, <<Nil>>, columns, k, out), LAMBDA s :
            [panicked |-> FALSE, ok |-> s.ok, elem |-> s.elem,
             calls |-> <<dbCall("Scan", <<Nil>>, s.ok)>>])

\* what Query found out about its destination: returnSlice, the kind of
\* returnType and what reflect.New(returnType) points to
Shape(returnSlice, kind, zero) ==
    [returnSlice |-> returnSlice, kind |-> kind, zero |-> zero]

\* the loop without the "break" after the row of a destination that is no
\* slice: every row is mapped into the destination
RECURSIVE readRowsAll(_, _, _, _, _, _, _, _)
readRowsAll(tbl, shape, columns, out, k, cur, num, calls) ==
    IF k > out.rows
    THEN [ret |-> Outcome("Query", num, "nil", FALSE), obj |-> cur,
          calls |-> Append(calls, dbCall("Next", <<>>, FALSE))]
    ELSE With(mapRow(tbl, IF shape.returnSlice THEN shape.zero ELSE cur,
                     shape.kind, columns, k, out),
              LAMBDA m :
        IF m.panicked
        THEN [ret |-> Outcome("Query", 0, "nil", TRUE), obj |-> cur,
              calls |-> Append(calls, dbCall("Next", <<>>, TRUE))]
        ELSE IF ~m.ok
        THEN [ret |-> Outcome("Query", 0, "driver", FALSE), obj |-> cur,
              calls |-> Append(calls, dbCall("Next", <<>>, TRUE)) \o m.calls]
        ELSE readRowsAll(tbl, shape, columns, out, k + 1,
                         IF shape.returnSlice THEN Append(cur, m.elem) ELSE m.elem,
                         num + 1,
                         Append(calls, dbCall("Next", <<>>, TRUE)) \o m.calls))

\* The loop "for rows.Next()" from row k on. cur: what the destination holds,
\* num: the rows mapped so far, calls: the driver calls so far.
RECURSIVE readRows(_, _, _, _, _, _, _, _)
readRows(tbl, shape, columns, out, k, cur, num, calls) ==
    IF k > out.rows
    THEN [ret |-> Outcome("Query", num, "nil", FALSE), obj |-> cur,
          calls |-> Append(calls, dbCall("Next", <<>>, FALSE))]
    ELSE With(mapRow(tbl, IF shape.returnSlice THEN shape.zero ELSE cur,
                     shape.kind, columns, k, out),
              LAMBDA m :
        IF m.panicked
        THEN [ret |-> Outcome("Query", 0, "nil", TRUE), obj |-> cur,
              calls |-> Append(calls, dbCall("Next", <<>>, TRUE))]
        ELSE IF ~m.ok
        THEN [ret |-> Outcome("Query", 0, "driver", FALSE), obj |-> cur,
              calls |-> Append(calls, dbCall("Next", <<>>, TRUE)) \o m.calls]
        ELSE IF shape.returnSlice
        THEN readRows(tbl, shape, columns, out, k + 1,
                      Append(cur, m.elem), num + 1,
                      Append(calls, dbCall("Next", <<>>, TRUE)) \o m.calls)
        ELSE [ret |-> Outcome("Query", num + 1, "nil", FALSE), obj |-> m.elem,
              calls |-> Append(calls, dbCall("Next", <<>>, TRUE)) \o m.calls])

\* a *sql.Rows: the result it runs over, how many rows rows.Next has
\* advanced it to, and whether rows.Close was called
Cursor(result, visited, closed) ==
    Ptr([result |-> result, visited |-> visited, closed |-> closed])

\* the calls of rows.Next that returned true
Visited(calls) ==
    Cardinality({j \in DOMAIN calls : calls[j].op = "Next" /\ calls[j].ok})

\* runQuery with rows.Close() called before it returns instead of deferred:
\* a panic in the loop leaves the cursor open
runQueryCloseOnReturn(tbl, shape, cur, values, out) ==
    IF ~out.query
    THEN [ret |-> Outcome("Query", 0, "driver", FALSE), obj |-> cur,
          calls |-> <<dbCall("Query", values, FALSE)>>, rows |-> Nil]
    ELSE IF out.columns = Nil
    THEN [ret |-> Outcome("Query", 0, "driver", FALSE),
          obj |-> IF shape.returnSlice THEN <<>> ELSE cur,
          calls |-> <<dbCall("Query", values, TRUE), dbCall("Columns", <<>>, FALSE),
                      dbCall("Close", <<>>, TRUE)>>,
          rows |-> Cursor(out, 0, TRUE)]
    ELSE With(readRows(tbl, shape, out.columns[1], out, 1,
                       IF shape.returnSlice THEN <<>> ELSE cur, 0,
                       <<dbCall("Query", values, TRUE), dbCall("Columns", <<>>, TRUE)>>),
              LAMBDA r :
                 [ret |-> r.ret, obj |-> r.obj,
                  calls |-> IF r.ret.panicked THEN r.calls
                            ELSE Append(r.calls, dbCall("Close", <<>>, TRUE)),
                  rows |-> Cursor(out, Visited(r.calls), ~r.ret.panicked)])

\* runQuery without "sliceValue.Set(reflect.MakeSlice(...))": the rows are
\* appended to what the slice held
runQueryKeeping(tbl, shape, cur, values, out) ==
    IF ~out.query
    THEN [ret |-> Outcome("Query", 0, "driver", FALSE), obj |-> cur,
          calls |-> <<dbCall("Query", values, FALSE)>>, rows |-> Nil]
    ELSE IF out.columns = Nil
    THEN [ret |-> Outcome("Query", 0, "driver", FALSE), obj |-> cur,
          calls |-> <<dbCall("Query", values, TRUE), dbCall("Columns", <<>>, FALSE),
                      dbCall("Close", <<>>, TRUE)>>,
          rows |-> Cursor(out, 0, TRUE)]
    ELSE With(readRows(tbl, shape, out.columns[1], out, 1, cur, 0,
                       <<dbCall("Query", values, TRUE), dbCall("Columns", <<>>, TRUE)>>),
              LAMBDA r :
                 [ret |-> r.ret, obj |-> r.obj,
                  calls |-> Append(r.calls, dbCall("Close", <<>>, TRUE)),
                  rows |-> Cursor(out, Visited(r.calls), TRUE)])

\* Pstmt.Query from "perform query" on: the values are bound, tbl is the
\* table of a record destination (else nil). rows.Close is deferred: it is
\* called on return and on panic.
runQuery(tbl, shape, cur, values, out) ==
    IF ~out.query
    THEN [ret |-> Outcome("Query", 0, "driver", FALSE), obj |-> cur,
          calls |-> <<dbCall("Query", values, FALSE)>>, rows |-> Nil]
    ELSE IF out.columns = Nil
    THEN [ret |-> Outcome("Query", 0, "driver", FALSE),
          obj |-> IF shape.returnSlice THEN <<>> ELSE cur,
          calls |-> <<dbCall("Query", values, TRUE), dbCall("Columns", <<>>, FALSE),
                      dbCall("Close", <<>>, TRUE)>>,
          rows |-> Cursor(out, 0, TRUE)]
    ELSE With(readRows(tbl, shape, out.columns[1], out, 1,
                       IF shape.returnSlice THEN <<>> ELSE cur, 0,
                       <<dbCall("Query", values, TRUE), dbCall("Columns", <<>>, TRUE)>>),
              LAMBDA r :
                 [ret |-> r.ret, obj |-> r.obj,
                  calls |-> Append(r.calls, dbCall("Close", <<>>, TRUE)),
                  rows |-> Cursor(out, Visited(r.calls), TRUE)])

\* Pstmt.Query(i, params); cur: what i points to
Query(tbls, declT, stmt, i, cur, params, out) ==
    IF i = Nil
    THEN [ret |-> Outcome("Query", 0, "errorNil", FALSE), obj |-> cur,
          calls |-> <<>>, rows |-> Nil]
    ELSE IF Kind(i[1].type) # "ptr"
    THEN [ret |-> Outcome("Query", 0, "pointerExpected", FALSE), obj |-> cur,
          calls |-> <<>>, rows |-> Nil]
    ELSE IF i[1].null
    THEN [ret |-> Outcome("Query", 0, "pointerToNil", FALSE), obj |-> cur,
          calls |-> <<>>, rows |-> Nil]
    ELSE IF Kind(Elem(i[1].type)) = "ptr"
    THEN [ret |-> Outcome("Query", 0, "pointerToPointer", FALSE), obj |-> cur,
          calls |-> <<>>, rows |-> Nil]
    ELSE IF Kind(Elem(i[1].type)) = "interface"
    THEN [ret |-> Outcome("Query", 0, "wrongTypeOfI", FALSE), obj |-> cur,
          calls |-> <<>>, rows |-> Nil]
    ELSE IF Kind(Elem(i[1].type)) = "slice" /\ Kind(Elem(Elem(i[1].type))) # "ptr"
    THEN [ret |-> Outcome("Query", 0, "sliceOfPointersExpected", FALSE), obj |-> cur,
          calls |-> <<>>, rows |-> Nil]
    ELSE LET returnSlice == Kind(Elem(i[1].type)) = "slice"
             returnType == IF returnSlice THEN Elem(Elem(Elem(i[1].type)))
                           ELSE Elem(i[1].type)
             found == IF Kind(returnType) = "struct" THEN getTable(tbls, returnType)
                      ELSE [err |-> "nil", tbl |-> Nil]
         IN  IF found.err # "nil"
             THEN [ret |-> Outcome("Query", 0, found.err, FALSE), obj |-> cur,
                   calls |-> <<>>, rows |-> Nil]
             ELSE With(getValues(stmt, params), LAMBDA g :
                 IF g.panicked
                 THEN [ret |-> Outcome("Query", 0, "nil", TRUE), obj |-> cur,
                       calls |-> <<>>, rows |-> Nil]
                 ELSE IF g.err # "nil"
                 THEN [ret |-> Outcome("Query", 0, g.err, FALSE), obj |-> cur,
                       calls |-> <<>>, rows |-> Nil]
                 ELSE runQuery(found.tbl,
                               Shape(returnSlice, Kind(returnType),
                                     ZeroOf(returnType, declT)),
                               cur, Spread(g.values), out))

\* The driver's answers to a query whose result has one of the given
\* column lists: the query fails, rows.Columns fails, or the result has up to
\* MaxRows rows and rows.Scan fails at none or at one of them.
QueryOutcomesOf(columnLists) ==
    {QueryOutcome(FALSE, Nil, 0, 0), QueryOutcome(TRUE, Nil, 0, 0)}
    \cup UNION {{QueryOutcome(TRUE, Ptr(c), n, b) : c \in columnLists, b \in 0..n} :
                 n \in 0..MaxRows}

\* the answers to a statement that selects one value, or two
QueryOutcomes == QueryOutcomesOf({<<SelectCount>>, <<SelectCount, SelectCount>>})

\* the parameter lists of the statements the program has compiled
ParamLists == UNION {[1..n -> Names] : n \in 0..MaxParams}

\* n, err := pstmt.Exec(arg.params); a panic ends the program
CallExec ==
    /\ ~ret.panicked
    /\ \E ok \in BOOLEAN, affected \in RowsAffected :
        \E r \in {Exec(pstmt[1], arg.params, ok, affected)} :
            /\ ret' = r.ret
            /\ drv' = r.calls
            /\ rows' = Nil
            /\ UNCHANGED <<structT, sqlDialect, tables, pstmt, arg, obj>>
            /\ UNCHANGED <<Db, selectQueries, threads>>

\* n, err := pstmt.Query(arg.i, arg.params); a panic ends the program
CallQuery ==
    /\ ~ret.panicked
    /\ \E out \in QueryOutcomes :
        \E r \in {Query(tables, structT, pstmt[1], arg.i, obj, arg.params, out)} :
            /\ ret' = r.ret
            /\ drv' = r.calls
            /\ obj' = r.obj
            /\ rows' = r.rows
            /\ UNCHANGED <<structT, sqlDialect, tables, pstmt, arg>>
            /\ UNCHANGED <<Db, selectQueries, threads>>

\* a program that has compiled a statement with Prepare, its parameters
\* separated by commas, and is about to pass it a destination and params
InitBind ==
    /\ structT = <<>>
    /\ sqlDialect \in Dialects
    /\ tables = <<>>
    /\ pstmt \in {Prepare(sqlDialect, Join(holders(names), <<",">>), TRUE).pstmt :
                    names \in ParamLists}
    /\ arg \in [i : Dests, params : Params]
    /\ obj = 0
    /\ rows = Nil
    /\ ret = Outcome("Prepare", 0, "nil", FALSE)
    /\ drv = <<>>
    /\ Db = <<>>
    /\ selectQueries = <<>>
    /\ threads = <<>>

NextBind == CallExec \/ CallQuery

SpecBind == InitBind /\ [][NextBind]_vars

----------------------------------------------------------------------------
(* Properties of the binding.                                              *)

\* a destination Query accepts: a pointer to an int
ScalarDest == Dest(PtrTo(tInt), FALSE)

\* the last call was one that binds its params: Exec, or Query with a
\* destination it accepts
Binding == ret.op = "Exec" \/ (ret.op = "Query" /\ arg.i = ScalarDest)

\* the driver primitive of the last call was called with these values
Handed(values) ==
    /\ Len(drv) >= 1
    /\ drv[1].op = ret.op
    /\ drv[1].args = values
    /\ \A k \in 2..Len(drv) : drv[k].op \notin {"Exec", "Query"}

\* C8: with nil params, Exec and Query call the driver primitive, without
\* values, when the statement declares no parameter; when it declares one
\* or more they return the missing-values error and call nothing.
C8_NilParams ==
    (Binding /\ arg.params = Nil) =>
        IF pstmt[1].params = <<>>
        THEN ~ret.panicked /\ ret.err \in {"nil", "driver"} /\ Handed(<<>>)
        ELSE ~ret.panicked /\ ret.err = "missingAll" /\ drv = <<>>

\* C8: Query with nil params on a statement with one parameter returned
\* the missing-values error without a call of the driver
C8_NilForOneParameter ==
    /\ ret.op = "Query" /\ arg.i = ScalarDest /\ arg.params = Nil
    /\ Len(pstmt[1].params) = 1
    /\ ret.err = "missingAll" /\ drv = <<>>

\* C9: with a map as params, when the map has every declared name the
\* driver is handed one value per declared parameter, the i-th the map's
\* value of the i-th declared name; when it lacks a declared name the call
\* returns the missing-named-value error and calls nothing.
C9_MapParams ==
    (Binding /\ arg.params # Nil /\ arg.params[1].kind = "map") =>
        IF \A k \in 1..Len(pstmt[1].params) :
               arg.params[1].at[pstmt[1].params[k]] # Nil
        THEN /\ ~ret.panicked /\ ret.err \in {"nil", "driver"}
             /\ Handed([k \in 1..Len(pstmt[1].params) |->
                           arg.params[1].at[pstmt[1].params[k]][1]])
        ELSE ~ret.panicked /\ ret.err = "missingNamed" /\ drv = <<>>

\* C9: a statement that declares a twice, executed with a map that has a
\* and b: the value of a is handed over twice, b is ignored
C9_NameTwiceExtraKey ==
    /\ ret.op = "Exec" /\ ret.err = "nil"
    /\ pstmt[1].params = <<<<"a">>, <<"a">>>>
    /\ arg.params = Ptr(MapValue([name \in Names |->
                           IF name = <<"a">> THEN Ptr(Value("int", 1))
                           ELSE Ptr(Value("int", 2))]))
    /\ Handed(<<Value("int", 1), Value("int", 1)>>)

\* C10: with a bare value as params, the call binds it (hands it to the
\* driver as the one value) only when the statement declares exactly one
\* parameter and the kind of the value is supported; with any other number
\* of declared parameters it returns the arity error, with an unsupported
\* kind the type error (either of them when both apply), and it always
\* returns.
C10_BareValue ==
    (Binding /\ arg.params # Nil /\ arg.params[1].kind # "map") =>
        /\ ~ret.panicked
        /\ IF Len(pstmt[1].params) = 1 /\ checkFieldType(arg.params[1].kind)
           THEN ret.err \in {"nil", "driver"} /\ Handed(<<arg.params[1]>>)
           ELSE /\ drv = <<>>
                /\ ret.err \in {"arity", "wrongType"}
                /\ checkFieldType(arg.params[1].kind) => ret.err = "arity"
                /\ Len(pstmt[1].params) = 1 => ret.err = "wrongType"

\* C10: Exec of a statement without parameters with a bare int ended in a
\* panic, not in an error value
C10_PanicWithoutParameters ==
    /\ ret.op = "Exec" /\ ret.panicked
    /\ pstmt[1].params = <<>>
    /\ arg.params = Ptr(Value("int", 0))
    /\ drv = <<>>

----------------------------------------------------------------------------
(* Insert, Update, Delete of a record.                                     *)

\* time.Now().UTC().Unix() of a call
Times == {7, 8}

\* what res.LastInsertId() may give: an error (none), or the id
LastInsertIds == {Nil, <<5>>}

\* The argument i of Insert, Update and Delete is nil or a value of which
\* the type is read and, of a pointer, whether it is nil; rec is the record
\* of the caller that i is, or points to.
\* prepareParams(i): the error, the table, the map from every column of the
\* table to the value of its field, and whether v is addressable (i is a
\* pointer). A nil pointer has no fields: FieldByIndex panics.
prepareParams(tbls, i, rec) ==
    LET ty == IF i = Nil THEN typeOf(Nil) ELSE typeOf(i[1].type)
        found == IF ty.err # "nil" THEN [err |-> ty.err, tbl |-> Nil]
                 ELSE getTable(tbls, ty.t)
    IN  IF found.err # "nil"
        THEN [err |-> found.err, panicked |-> FALSE, tbl |-> Nil,
              params |-> <<>>, addressable |-> FALSE]
        ELSE IF i[1].null
        THEN [err |-> "nil", panicked |-> TRUE, tbl |-> found.tbl,
              params |-> <<>>, addressable |-> FALSE]
        ELSE [err |-> "nil", panicked |-> FALSE, tbl |-> found.tbl,
              params |-> [c \in DOMAIN found.tbl[1].fields |->
                            Ptr(Value("int", rec[found.tbl[1].fields[c].index]))],
              addressable |-> Kind(i[1].type) = "ptr"]

\* params[f.column] = time for the field f of a role, if the table has it
stamped(params, f, time) ==
    IF f = Nil THEN params
    ELSE [params EXCEPT ![f[1].column] = Ptr(Value("int", time))]

\* v.FieldByIndex(f.index).SetInt(n) for the field f of a role, if the
\* table has it
setInt(rec, f, n) ==
    IF f = Nil THEN rec ELSE [rec EXCEPT ![f[1].index] = n]

\* what Insert, Update and Delete hand back: what was returned, the record
\* of the caller, the driver calls and the cursor opened
Done(op, num, err, panicked, rec, calls, cursor) ==
    [ret |-> Outcome(op, num, err, panicked), obj |-> rec, calls |-> calls,
     rows |-> cursor]

\* Postgresql.insert(tbl, params): Query with a pointer to a new int64
customInsert(tbls, declT, tbl, params, out) ==
    Query(tbls, declT, tbl.insertQuery[1], Dest(PtrTo(tInt), FALSE), 0,
          Ptr(MapValue(params)), out)

\* Insert from "udpate id field in structure" on: SetInt panics when v is
\* not addressable
insertSets(tbl, rec, addressable, id, time, calls, cursor) ==
    IF ~addressable THEN Done("Insert", 0, "nil", TRUE, rec, calls, cursor)
    ELSE Done("Insert", 0, "nil", FALSE,
              setInt(setInt(setInt(rec, tbl.idField, id), tbl.createdField, time),
                     tbl.modifiedField, time),
              calls, cursor)

\* DbHelper.Insert(i) at this time; out: the driver's answer to the query
\* of a custom insert; ok, lastId: its answers to stmt.Exec and
\* res.LastInsertId of the standard insert (the log records what
\* res.LastInsertId returned in the place of the values passed)
Insert(tbls, declT, dialect, i, rec, time, out, ok, lastId) ==
    With(prepareParams(tbls, i, rec), LAMBDA p :
        IF p.err # "nil" \/ p.panicked
        THEN Done("Insert", 0, p.err, p.panicked, rec, <<>>, Nil)
        ELSE With(stamped(stamped(p.params, p.tbl[1].createdField, time),
                          p.tbl[1].modifiedField, time), LAMBDA params :
            IF hasCustomInsert(dialect)
            THEN With(customInsert(tbls, declT, p.tbl[1], params, out), LAMBDA q :
                    IF q.ret.err # "nil" \/ q.ret.panicked
                    THEN Done("Insert", 0, q.ret.err, q.ret.panicked, rec,
                              q.calls, q.rows)
                    ELSE insertSets(p.tbl[1], rec, p.addressable, q.obj, time,
                                    q.calls, q.rows))
            ELSE With(exec(p.tbl[1].insertQuery[1], Ptr(MapValue(params)), ok),
                      LAMBDA e :
                    IF e.err # "nil" \/ e.panicked
                    THEN Done("Insert", 0, e.err, e.panicked, rec, e.calls, Nil)
                    ELSE IF lastId = Nil
                    THEN Done("Insert", 0, "nil", FALSE, rec,
                              Append(e.calls, dbCall("LastInsertId", lastId, FALSE)),
                              Nil)
                    ELSE insertSets(p.tbl[1], rec, p.addressable, lastId[1], time,
                                    Append(e.calls, dbCall("LastInsertId", lastId, TRUE)),
                                    Nil))))

\* DbHelper.Update(i) at this time
Update(tbls, i, rec, time, ok, affected) ==
    With(prepareParams(tbls, i, rec), LAMBDA p :
        IF p.err # "nil" \/ p.panicked
        THEN Done("Update", 0, p.err, p.panicked, rec, <<>>, Nil)
        ELSE With(Exec(p.tbl[1].updateQuery[1],
                       Ptr(MapValue(stamped(p.params, p.tbl[1].modifiedField, time))),
                       ok, affected), LAMBDA e :
            IF e.ret.err # "nil" \/ e.ret.panicked
            THEN Done("Update", 0, e.ret.err, e.ret.panicked, rec, e.calls, Nil)
            ELSE IF p.tbl[1].modifiedField # Nil /\ ~p.addressable
            THEN Done("Update", 0, "nil", TRUE, rec, e.calls, Nil)
            ELSE Done("Update", e.ret.num, "nil", FALSE,
                      setInt(rec, p.tbl[1].modifiedField, time), e.calls, Nil)))

\* DbHelper.Delete(i)
Delete(tbls, i, rec, ok, affected) ==
    With(prepareParams(tbls, i, rec), LAMBDA p :
        IF p.err # "nil" \/ p.panicked
        THEN Done("Delete", 0, p.err, p.panicked, rec, <<>>, Nil)
        ELSE With(Exec(p.tbl[1].deleteQuery[1], Ptr(MapValue(p.params)), ok, affected),
                  LAMBDA e :
            Done("Delete", e.ret.num, e.ret.err, e.ret.panicked, rec, e.calls, Nil)))

----------------------------------------------------------------------------
(* Programs that have registered their record type.                        *)

\* the driver accepts the three Prepare calls of AddTable
AllAccepted == [k \in 1..3 |-> TRUE]

\* the registries AddTable(i, name) can leave behind in tbls when the
\* driver accepts its statements: one for every order of the field map
RegistriesOf(tbls, declT, dialect, i, name) ==
    {addTable(tbls, declT, dialect, i, name, insertFields, updateFields,
              AllAccepted).tables :
        insertFields \in InsertFieldsOf(typeOf(i).t, declT, name),
        updateFields \in UpdateFieldsOf(typeOf(i).t, declT, name)}

\* the declarations of T that AddTable accepts
RecordDecls ==
    {declT \in StructDecls : describeTable(tT, declT, <<"t">>).err = "nil"}

----------------------------------------------------------------------------
(* Pstmt.Query with the destinations of a program that has registered T.   *)

\* the declarations of T of the programs that query: a flag beside the id,
\* an embedded record, a skipped field
QueryDecls == {<<fId, fBool>>, <<fKey, fEmbedded>>, <<fId, fTmp>>} \cap RecordDecls

\* The destinations: nil, a T, a nil *T, a *T, a **T, pointers to a slice of
\* *T, of T, of *int, to a map, to an interface{}, to an int, and to a U
\* and a slice of *U (U is not registered).
RecordDests ==
    {Nil, Dest(tT, FALSE), Dest(PtrTo(tT), TRUE), Dest(PtrTo(tT), FALSE),
     Dest(PtrTo(PtrTo(tT)), FALSE), Dest(PtrTo(SliceOf(PtrTo(tT))), FALSE),
     Dest(PtrTo(SliceOf(tT)), FALSE), Dest(PtrTo(SliceOf(PtrTo(tInt))), FALSE),
     Dest(PtrTo(tMap), FALSE), Dest(PtrTo(tAny), FALSE), Dest(PtrTo(tInt), FALSE),
     Dest(PtrTo(tU), FALSE), Dest(PtrTo(SliceOf(PtrTo(tU))), FALSE)}

\* a record or an int the caller filled before the call: every field is 9
\* (the driver's rows hold 1, 2, ...)
Filled(t, declT) ==
    IF Kind(t) = "struct" THEN [p \in FieldPaths(FieldsOf(t, declT)) |-> 9] ELSE 9

\* what the argument i is or points to before the call: a filled record or
\* int, a slice of one filled element, or nothing the model looks into
Pointee(i, declT) ==
    IF i = Nil \/ i[1].null THEN Nil
    ELSE IF Kind(i[1].type) # "ptr"
    THEN IF Kind(i[1].type) = "struct" THEN Filled(i[1].type, declT) ELSE Nil
    ELSE With(Elem(i[1].type), LAMBDA t :
            IF Kind(t) \in {"struct", "int"} THEN Filled(t, declT)
            ELSE IF Kind(t) = "slice" /\ Kind(Elem(t)) = "ptr"
            THEN <<Filled(Elem(Elem(t)), declT)>>
            ELSE IF Kind(t) = "slice" THEN <<Filled(Elem(t), declT)>>
            ELSE Nil)

\* the column lists a result can report to a program with this registry:
\* up to as many columns as its tables have, each a column of a table or
\* the computed column, none twice
ColumnLists(tbls) ==
    LET columns == UNION {DOMAIN tbls[t].fields : t \in DOMAIN tbls}
        names == columns \cup {SelectCount}
    IN  UNION {{c \in [1..n -> names] : \A j, k \in 1..n : c[j] = c[k] => j = k} :
                 n \in 1..Cardinality(columns)}

\* the params argument of the programs that query: nil, a map with every
\* name, a map without "b", an int, a struct
QueryParams ==
    {Nil, Ptr(MapValue([name \in Names |-> Ptr(Value("int", 1))])),
     Ptr(MapValue([name \in Names |->
                      IF name = <<"b">> THEN Nil ELSE Ptr(Value("int", 1))])),
     Ptr(Value("int", 0)), Ptr(Value("struct", 0))}

\* the driver is asked nothing by a call that returns before "perform
\* query": there is one answer to draw then
Asked(tbls, declT, stmt, i, params) ==
    Query(tbls, declT, stmt, i, Nil, params, QueryOutcome(FALSE, Nil, 0, 0)).calls # <<>>

\* n, err := pstmt.Query(arg.i, arg.params) with one of these answers of
\* the driver; a panic ends the program
CallQueryOn(outcomes) ==
    /\ ~ret.panicked
    /\ \E out \in IF Asked(tables, structT, pstmt[1], arg.i, arg.params)
                  THEN outcomes
                  ELSE {QueryOutcome(FALSE, Nil, 0, 0)} :
        \E r \in {Query(tables, structT, pstmt[1], arg.i, obj, arg.params, out)} :
            /\ ret' = r.ret
            /\ drv' = r.calls
            /\ obj' = r.obj
            /\ rows' = r.rows
            /\ UNCHANGED <<structT, sqlDialect, tables, pstmt, arg>>
            /\ UNCHANGED <<Db, selectQueries, threads>>

\* the parameter lists of the statements of the programs that query: none,
\* "a", "a" and "b", ...
QueryParamLists ==
    {[k \in 1..n |-> IF k % 2 = 1 THEN <<"a">> ELSE <<"b">>] : n \in 0..MaxParams}

\* Query on a result of the registry's columns
CallQueryRecords == CallQueryOn(QueryOutcomesOf(ColumnLists(tables)))

\* the driver's answers to the insert statement of a dialect with a custom
\* insert: the result has the one column the statement returns
InsertOutcomes(tbls, dialect) ==
    IF hasCustomInsert(dialect) /\ tT \in DOMAIN tbls
    THEN QueryOutcomesOf({<<tbls[tT].idField[1].column>>})
    ELSE {QueryOutcome(FALSE, Nil, 0, 0)}

\* err := dbh.Insert(arg.i); a panic ends the program
CallInsert ==
    /\ ~ret.panicked
    /\ \E time \in Times, out \in InsertOutcomes(tables, sqlDialect),
          ok \in IF hasCustomInsert(sqlDialect) THEN {TRUE} ELSE BOOLEAN,
          lastId \in IF hasCustomInsert(sqlDialect) THEN {Nil} ELSE LastInsertIds :
        \E r \in {Insert(tables, structT, sqlDialect, arg.i, obj, time, out, ok,
                          lastId)} :
            /\ ret' = r.ret
            /\ drv' = r.calls
            /\ obj' = r.obj
            /\ rows' = r.rows
            /\ UNCHANGED <<structT, sqlDialect, tables, pstmt, arg>>
            /\ UNCHANGED <<Db, selectQueries, threads>>

\* n, err := dbh.Update(arg.i); a panic ends the program
CallUpdate ==
    /\ ~ret.panicked
    /\ \E time \in Times, ok \in BOOLEAN, affected \in RowsAffected :
        \E r \in {Update(tables, arg.i, obj, time, ok, affected)} :
            /\ ret' = r.ret
            /\ drv' = r.calls
            /\ obj' = r.obj
            /\ rows' = r.rows
            /\ UNCHANGED <<structT, sqlDialect, tables, pstmt, arg>>
            /\ UNCHANGED <<Db, selectQueries, threads>>

\* a Delete that takes the table of the record out of the registry when
\* the driver has deleted the row
CallDeleteAndForget ==
    /\ ~ret.panicked
    /\ \E ok \in BOOLEAN, affected \in RowsAffected :
        \E r \in {Delete(tables, arg.i, obj, ok, affected)} :
            /\ ret' = r.ret
            /\ drv' = r.calls
            /\ obj' = r.obj
            /\ rows' = r.rows
            /\ tables' = IF r.ret.err = "nil" /\ r.calls # <<>>
                          THEN removeTable(tables, arg.i[1].type).tables
                          ELSE tables
            /\ UNCHANGED <<structT, sqlDialect, pstmt, arg>>
            /\ UNCHANGED <<Db, selectQueries, threads>>

\* n, err := dbh.Delete(arg.i); a panic ends the program
CallDelete ==
    /\ ~ret.panicked
    /\ \E ok \in BOOLEAN, affected \in RowsAffected :
        \E r \in {Delete(tables, arg.i, obj, ok, affected)} :
            /\ ret' = r.ret
            /\ drv' = r.calls
            /\ obj' = r.obj
            /\ rows' = r.rows
            /\ UNCHANGED <<structT, sqlDialect, tables, pstmt, arg>>
            /\ UNCHANGED <<Db, selectQueries, threads>>

\* a program that has opened a Sqlite database, has registered T as table
\* "t", has compiled a statement and is about to pass it a destination and
\* params
InitQuery ==
    /\ structT \in QueryDecls
    /\ sqlDialect = "Sqlite"
    /\ tables \in RegistriesOf(<<>>, structT, sqlDialect, PtrTo(tT), <<"t">>)
    /\ pstmt \in {Prepare(sqlDialect, Join(holders(names), <<",">>), TRUE).pstmt :
                    names \in QueryParamLists}
    /\ arg \in [i : RecordDests, params : QueryParams]
    /\ obj = Pointee(arg.i, structT)
    /\ rows = Nil
    /\ ret = Outcome("Prepare", 0, "nil", FALSE)
    /\ drv = <<>>
    /\ Db = <<>>
    /\ selectQueries = <<>>
    /\ threads = <<>>

NextQuery == CallExec \/ CallQueryRecords \/ CallInsert \/ CallUpdate \/ CallDelete

SpecQuery == InitQuery /\ [][NextQuery]_vars

----------------------------------------------------------------------------
(* Properties of Query.                                                    *)

\* the destinations that are no sequence: a pointer to a T, to an int
RecordDest == Dest(PtrTo(tT), FALSE)
NonSequenceDests == {RecordDest, ScalarDest}

\* the last step was a Query that returned no error
QueryReturned(r) == r.op = "Query" /\ r.err = "nil" /\ ~r.panicked

\* what row k of a result with these columns makes of the element elem, an
\* int (scalar) or a record of the registered type T: the int holds k, the
\* field of every column holds k
RowIn(elem, scalar, tbls, columns, k) ==
    IF scalar THEN k
    ELSE [p \in DOMAIN elem |->
            IF \E j \in 1..Len(columns) : tbls[tT].fields[columns[j]].index = p
            THEN k ELSE elem[p]]

\* C12: for a destination that is no sequence (a record, a scalar), a Query
\* that returns no error has advanced the cursor at most once; when the
\* result has a row it returns 1 and the destination holds the first row,
\* mapped into what it held; when the result is empty it returns 0 and the
\* destination is unchanged.
C12_FirstRowOnly ==
    [][(arg.i \in NonSequenceDests /\ QueryReturned(ret'))
       => /\ rows' # Nil
          /\ rows'[1].visited <= 1
          /\ IF rows'[1].result.rows >= 1
             THEN /\ ret'.num = 1
                  /\ rows'[1].visited = 1
                  /\ obj' = RowIn(obj, arg.i = ScalarDest, tables,
                               rows'[1].result.columns[1], 1)
             ELSE /\ ret'.num = 0
                  /\ rows'[1].visited = 0
                  /\ obj' = obj]_vars

\* a record was the destination of a result of 3 rows: the call returned 1
\* and the record holds the first row
C12_ThreeRowResult ==
    /\ arg.i = RecordDest /\ QueryReturned(ret)
    /\ rows # Nil /\ rows[1].result.rows = 3
    /\ ret.num = 1
    /\ \E p \in DOMAIN obj : obj[p] = 1

\* the destination that is a sequence of pointers to records: a *[]*T
SliceDest == Dest(PtrTo(SliceOf(PtrTo(tT))), FALSE)

\* C13: after a Query that returned no error with a destination that is a
\* sequence of pointers to records, the sequence holds one record per row of
\* the result, in the order of the rows, each a new record (zero but for the
\* columns of its row); what the sequence held before is gone; the count
\* returned is the number of rows and the length of the sequence.
C13_OneRecordPerRow ==
    (arg.i = SliceDest /\ QueryReturned(ret))
    => /\ rows # Nil
       /\ ret.num = rows[1].result.rows
       /\ Len(obj) = ret.num
       /\ \A k \in 1..Len(obj) :
            obj[k] = RowIn(ZeroOf(tT, structT), FALSE, tables,
                           rows[1].result.columns[1], k)

\* a sequence that held one record received a result of 3 rows
C13_ThreeRecords ==
    /\ arg.i = SliceDest /\ QueryReturned(ret)
    /\ Pointee(arg.i, structT) # <<>>
    /\ ret.num = 3 /\ Len(obj) = 3
    /\ obj[1] # obj[2] /\ obj[2] # obj[3]

\* the result the last call ran over reports a column that is no column of
\* T, and has a row
UnknownColumn ==
    /\ rows # Nil /\ rows[1].result.columns # Nil /\ rows[1].result.rows >= 1
    /\ \E j \in 1..Len(rows[1].result.columns[1]) :
         rows[1].result.columns[1][j] \notin DOMAIN tables[tT].fields

\* C14: when the destination is a record or a sequence of pointers to
\* records and the result reports a column without field descriptor, Query
\* returns the name-not-found error (it does not panic) and the cursor is
\* closed.
C14_UnknownColumnIsError ==
    (arg.i \in {RecordDest, SliceDest} /\ ret.op = "Query" /\ UnknownColumn)
    => /\ ~ret.panicked
       /\ ret.err = "nameNotFound"
       /\ rows[1].closed

\* a result with the column "n" beside a column of T was read into a
\* record: the call panicked at its first row
C14_PanicAtUnknownColumn ==
    /\ arg.i = RecordDest /\ ret.op = "Query" /\ UnknownColumn
    /\ Len(rows[1].result.columns[1]) = 2
    /\ ret.panicked
    /\ rows[1].visited = 1 /\ rows[1].closed
    /\ obj = Pointee(arg.i, structT)

\* the errors Query returns for its destination
ShapeErrors ==
    {"errorNil", "pointerExpected", "pointerToNil", "pointerToPointer",
     "wrongTypeOfI", "sliceOfPointersExpected"}

\* the type t is a supported scalar, a record, or a sequence of pointers to
\* records
Classified(t) ==
    \/ Kind(t) \in {"int", "struct"}
    \/ Kind(t) = "slice" /\ Kind(Elem(t)) = "ptr" /\ Kind(Elem(Elem(t))) = "struct"

\* the destination is nil, no pointer, a pointer to a pointer or a pointer
\* to a value of a type that is not classified
InvalidDest(i) ==
    \/ i = Nil
    \/ Kind(i[1].type) # "ptr"
    \/ ~Classified(Elem(i[1].type))

\* C15: Query rejects an invalid destination up front: it returns one of
\* the errors about the destination, before binding the parameters (so no
\* binding error and no panic of the binding) and without a driver call.
C15_InvalidDestRejected ==
    (ret.op = "Query" /\ InvalidDest(arg.i))
    => /\ ret.err \in ShapeErrors
       /\ ~ret.panicked
       /\ drv = <<>>

\* a Query whose destination points to a map got as far as the driver: the
\* statement was executed and a cursor was opened
C15_MapReachesDriver ==
    /\ ret.op = "Query" /\ arg.i = Dest(PtrTo(tMap), FALSE)
    /\ rows # Nil
    /\ drv # <<>> /\ drv[1].op = "Query"

\* C16: a cursor that Query opened is closed when Query has returned, and
\* when it has ended in a panic: after the full iteration of a sequence,
\* after the first row of a destination that is no sequence, after an empty
\* result, after rows.Columns failed, after rows.Scan failed at any row,
\* after a panic while a row was mapped.
C16_CursorClosed ==
    rows # Nil
    => /\ rows[1].closed
       /\ drv[Len(drv)].op = "Close"
       /\ Cardinality({j \in DOMAIN drv : drv[j].op = "Close"}) = 1

\* a sequence was being filled when rows.Scan failed at the second row of
\* the result: the cursor is closed
C16_ClosedAfterScanError ==
    /\ arg.i = SliceDest /\ ret.op = "Query" /\ ret.err = "driver"
    /\ rows # Nil /\ rows[1].visited = 2 /\ rows[1].result.bad = 2
    /\ rows[1].closed

\* the errors of getValues
BindingErrors == {"missingAll", "missingNamed", "arity", "wrongType"}

\* C11: a call of Exec, Query, Insert, Update or Delete that returns a
\* binding error (no values, a named value missing, several parameters and
\* a bare value, an unsupported type) has called no driver primitive, opened
\* no cursor and left the destination or record of the caller as it was.
C11_BindingErrorNoEffect ==
    [][(ret'.op \in {"Exec", "Query", "Insert", "Update", "Delete"}
          /\ ret'.err \in BindingErrors)
       => /\ drv' = <<>>
          /\ rows' = Nil
          /\ obj' = obj]_vars

\* Query with a record as destination and nil params on a statement with
\* one parameter returned the missing-values error
C11_MissingValuesForRecord ==
    /\ ret.op = "Query" /\ arg.i = RecordDest /\ arg.params = Nil
    /\ Len(pstmt[1].params) = 1
    /\ ret.err = "missingAll"
    /\ drv = <<>> /\ obj = Pointee(arg.i, structT)

----------------------------------------------------------------------------
(* Insert, Update and Delete of the records of a registered type.          *)

\* the argument i: nil, a T, a pointer to a T, a pointer to a U (U is not
\* registered)
RecordArgs ==
    {Nil, Dest(tT, FALSE), Dest(PtrTo(tT), FALSE), Dest(PtrTo(tU), FALSE)}

\* a program that has registered T, declared in any way AddTable accepts,
\* as table "t" and is about to insert, update and delete its record
InitRecords ==
    /\ structT \in RecordDecls
    /\ sqlDialect \in Dialects
    /\ tables \in RegistriesOf(<<>>, structT, sqlDialect, PtrTo(tT), <<"t">>)
    /\ pstmt = Nil
    /\ arg \in [i : RecordArgs, params : {Nil}]
    /\ obj = Pointee(arg.i, structT)
    /\ rows = Nil
    /\ ret = Outcome("New", 0, "nil", FALSE)
    /\ drv = <<>>
    /\ Db = <<>>
    /\ selectQueries = <<>>
    /\ threads = <<>>

NextRecords == CallInsert \/ CallUpdate \/ CallDelete

SpecRecords == InitRecords /\ [][NextRecords]_vars

----------------------------------------------------------------------------
(* Properties of Insert, Update and Delete.                                *)

\* the record of the last call was passed by pointer, by value
ByPointer == arg.i = Dest(PtrTo(tT), FALSE)
ByValue == arg.i = Dest(tT, FALSE)

\* the last call was op and returned no error
Returned0(op) == ret.op = op /\ ret.err = "nil" /\ ~ret.panicked

\* the value that the call of the driver primitive call bound to the
\* column of the statement stmt
BoundTo(call, stmt, column) ==
    call.args[CHOOSE k \in 1..Len(stmt.params) : stmt.params[k] = column].n

\* the fields of T with the role created or modified
StampFields(tbl) ==
    {f \in Range(tbl.createdField \o tbl.modifiedField) : TRUE}

\* C17: when Insert has returned no error for a record whose table has a
\* created or a modified field, these fields of the record hold the
\* timestamp that was bound to their columns in the executed insert
\* statement, under every dialect.
C17_StampsSetOnSuccess ==
    (ByPointer /\ Returned0("Insert"))
    => \A f \in StampFields(tables[tT]) :
         /\ drv # <<>> /\ drv[1].ok
         /\ obj[f.index] = BoundTo(drv[1], tables[tT].insertQuery[1], f.column)

\* under a dialect without custom insert the row was stored with a
\* timestamp, res.LastInsertId failed, Insert returned no error and the
\* created field of the record is what it was
C17_StoredButNotStamped ==
    /\ ByPointer /\ Returned0("Insert")
    /\ ~hasCustomInsert(sqlDialect)
    /\ tables[tT].createdField # Nil
    /\ drv # <<>> /\ drv[1].op = "Exec" /\ drv[1].ok
    /\ BoundTo(drv[1], tables[tT].insertQuery[1],
               tables[tT].createdField[1].column) \in Times
    /\ obj = Pointee(arg.i, structT)

\* the calls of a primitive in a log
CallsOf(calls, op) == {j \in DOMAIN calls : calls[j].op = op}

\* C18: Under a dialect without custom insert, Insert of a record of a
\* registered type executes the insert statement once and then asks the
\* result for the generated id; when the driver reports it, the id field of
\* the record is set to it; when the driver cannot, Insert returns no error
\* and the id field is what it was. Under a dialect with a custom insert the
\* routine (a query) is used and stmt.Exec is not called.
C18_InsertAndLastId ==
    [][(ret'.op = "Insert" /\ (ByPointer \/ ByValue))
       => IF hasCustomInsert(sqlDialect)
          THEN /\ CallsOf(drv', "Exec") = {} /\ CallsOf(drv', "LastInsertId") = {}
               /\ CallsOf(drv', "Query") = {1}
          ELSE /\ CallsOf(drv', "Exec") = {1} /\ CallsOf(drv', "Query") = {}
               /\ drv'[1].ok
                  => /\ CallsOf(drv', "LastInsertId") = {2}
                     /\ ret'.err = "nil" /\ ~ret'.panicked
                     /\ ByPointer
                        => obj'[tables[tT].idField[1].index]
                             = IF drv'[2].ok THEN drv'[2].args[1]
                               ELSE obj[tables[tT].idField[1].index]]_vars

\* a record was passed to Insert by value under a dialect without custom
\* insert: the statement was executed, the driver reported the id, and the
\* call panicked
C18_PanicAfterInsertByValue ==
    /\ ByValue /\ ret.op = "Insert" /\ ~hasCustomInsert(sqlDialect)
    /\ Len(drv) = 2 /\ drv[1].op = "Exec" /\ drv[1].ok
    /\ drv[2].op = "LastInsertId" /\ drv[2].ok
    /\ ret.panicked

\* the values the update statement of tbl binds for the record rec at this
\* time: the fields of its columns, but the time for the modified column
UpdateValues(tbl, rec, time) ==
    [k \in 1..Len(tbl.updateQuery[1].params) |->
        With(tbl.fields[tbl.updateQuery[1].params[k]], LAMBDA f :
            IF tbl.modifiedField = Ptr(f) THEN time ELSE rec[f.index])]

\* C19: Update of a record of a registered type executes the update
\* statement once, binding the fields of the record but the current time for
\* the modified column; when the driver succeeds it returns the driver's
\* count of affected rows and the modified field holds that time, every
\* other field being what it was; when it returns an error the count is 0
\* and the record is what it was. Delete leaves the record as it was.
C19_UpdateFrame ==
    [][/\ (ret'.op = "Update" /\ (ByPointer \/ ByValue))
          => /\ CallsOf(drv', "Exec") = {1} /\ Len(drv') = 1
             /\ \E time \in Times :
                  /\ [k \in 1..Len(drv'[1].args) |-> drv'[1].args[k].n]
                       = UpdateValues(tables[tT], obj, time)
                  /\ IF drv'[1].ok
                     THEN /\ ret'.err = "nil" /\ ~ret'.panicked
                          /\ ret'.num \in {-1, 0, 1}
                          /\ ByPointer
                             => obj' = setInt(obj, tables[tT].modifiedField, time)
                     ELSE /\ ret'.err # "nil" /\ ret'.num = 0
                          /\ obj' = obj
       /\ ret'.op = "Delete" => obj' = obj]_vars

\* a record of a table with a modified field was passed to Update by value:
\* the statement was executed and the call panicked
C19_PanicAfterUpdateByValue ==
    /\ ByValue /\ ret.op = "Update"
    /\ tables[tT].modifiedField # Nil
    /\ Len(drv) = 1 /\ drv[1].op = "Exec" /\ drv[1].ok
    /\ ret.panicked

----------------------------------------------------------------------------
(* Programs that remove a table and register it again.                     *)

\* the declarations of T and U of these programs
RemoveDecls == {<<fId, fBool>>, <<fKey, fModified>>} \cap RecordDecls

\* the arguments of AddTable and RemoveTable: nil, a T, a *T, a U
RegistryArgs == {Nil, tT, PtrTo(tT), tU}

\* the records and destinations of T: a T, a *T, a pointer to a slice of *T;
\* and a pointer to a U
RemoveArgs ==
    {Dest(tT, FALSE), Dest(PtrTo(tT), FALSE),
     Dest(PtrTo(SliceOf(PtrTo(tT))), FALSE), Dest(PtrTo(tU), FALSE)}

\* the driver's answers to the statement of these programs: it fails, or
\* its result is empty
NoRows ==
    {QueryOutcome(FALSE, Nil, 0, 0), QueryOutcome(TRUE, Ptr(<<SelectCount>>), 0, 0)}

\* a program that has opened a MySql database, has registered T and U, has
\* compiled a statement without parameters and goes on to remove and add
\* tables and to use its records
InitRemove ==
    /\ structT \in RemoveDecls
    /\ sqlDialect = "MySql"
    /\ tables \in UNION {RegistriesOf(tbls, structT, sqlDialect, tU, <<"t">>) :
                           tbls \in RegistriesOf(<<>>, structT, sqlDialect, tT, <<"t">>)}
    /\ pstmt = Prepare(sqlDialect, <<>>, TRUE).pstmt
    /\ arg \in [i : RemoveArgs, params : {Nil}]
    /\ obj = Pointee(arg.i, structT)
    /\ rows = Nil
    /\ ret = Outcome("Prepare", 0, "nil", FALSE)
    /\ drv = <<>>
    /\ Db = <<>>
    /\ selectQueries = <<>>
    /\ threads = <<>>

NextRemove ==
    \/ \E i \in RegistryArgs, name \in TableNames : AddTable(i, name)
    \/ \E i \in RegistryArgs : RemoveTable(i)
    \/ CallInsert
    \/ CallUpdate
    \/ CallDelete
    \/ CallQueryOn(NoRows)

SpecRemove == InitRemove /\ [][NextRemove]_vars

----------------------------------------------------------------------------
(* Properties of RemoveTable.                                              *)

\* the last step was an Insert, Update or Delete of a record of type T, or
\* a Query into a record or a sequence of records of type T
UsedT(r) ==
    \/ r.op \in {"Insert", "Update", "Delete"} /\ (ByPointer \/ ByValue)
    \/ r.op = "Query" /\ arg.i \in {RecordDest, SliceDest}

\* C20: RemoveTable(i) returns true exactly when the type of i was
\* registered before the call (false for nil and for a type without table),
\* removes the entry of that type and leaves every other entry as it was.
\* While T has no entry, every Insert, Update, Delete and Query into a
\* record or a sequence of records of T returns the no-assigned-table error
\* without a driver call and without a change of the record. An AddTable of
\* T with a name then succeeds (when the driver accepts its statements) and
\* leaves the other entries as they were.
C20_RemoveTable ==
    [][/\ ret'.op = "RemoveTable"
          => LET was == ret'.i # Nil /\ typeOf(ret'.i).t \in DOMAIN tables
             IN  /\ ret'.removed = was
                 /\ DOMAIN tables'
                      = DOMAIN tables \ (IF was THEN {typeOf(ret'.i).t} ELSE {})
                 /\ \A u \in DOMAIN tables' : tables'[u] = tables[u]
       /\ (UsedT(ret') /\ tT \notin DOMAIN tables)
          => /\ ret'.err = "noTable" /\ ~ret'.panicked
             /\ drv' = <<>> /\ rows' = Nil /\ obj' = obj
       /\ (ret'.op = "AddTable" /\ ret'.i \in {tT, PtrTo(tT)} /\ ret'.name # <<>>
             /\ tT \notin DOMAIN tables /\ \A j \in DOMAIN drv' : drv'[j].ok)
          => /\ ret'.err = "nil"
             /\ DOMAIN tables' = DOMAIN tables \cup {tT}
             /\ \A u \in DOMAIN tables : tables'[u] = tables[u]]_vars

\* T was removed and U is still registered: Insert of a *T returned the
\* no-assigned-table error
C20_InsertAfterRemoval ==
    /\ DOMAIN tables = {tU}
    /\ ret.op = "Insert" /\ ByPointer
    /\ ret.err = "noTable" /\ drv = <<>>

----------------------------------------------------------------------------
(* A database that keeps what is inserted: Insert, then Query by the id.   *)

\* the declarations of T of the programs that insert and read back: the
\* auto-incremented id of the README beside a flag, a created stamp, a
\* modified stamp or an embedded record
StoreDecls ==
    {<<fId, fBool>>, <<fId, fCreated>>, <<fId, fModified>>, <<fId, fEmbedded>>}
    \cap RecordDecls

\* the records the caller builds before Insert: every field is 0 or 9
NewRecords(declT) == [FieldPaths(declT) -> {0, 9}]

\* the columns an INSERT statement names between "(" and ")", as the
\* database reads them
columnsNamed(query) ==
    With(Slice(query, Index(query, <<"(">>) + 1, Index(query, <<")">>)), LAMBDA list :
        IF list = <<>> THEN <<>>
        ELSE With(Split(list, <<",">>), LAMBDA parts :
                [k \in DOMAIN parts |->
                    IF parts[k] # <<>> /\ parts[k][1] = " " THEN Tail(parts[k])
                    ELSE parts[k]]))

\* the row the database stores when it executes the insert statement with
\* these values: the k-th column named gets the k-th value, the id column
\* left out gets the generated id, any other column left out its default
storedRow(tbl, stmt, values, newId) ==
    With(columnsNamed(stmt.query), LAMBDA named :
        [c \in DOMAIN tbl.fields |->
            IF \E k \in 1..Len(named) : named[k] = c
            THEN values[CHOOSE k \in 1..Len(named) : named[k] = c].n
            ELSE IF tbl.fields[c].id THEN newId ELSE 0])

\* the values of the statement a call executed: those of its call of
\* stmt.Exec or stmt.Query that the driver accepted (none: nothing executed)
executed(calls) ==
    {calls[j].args : j \in {k \in DOMAIN calls :
                               calls[k].op \in {"Exec", "Query"} /\ calls[k].ok}}

\* what the database answers to SELECT * FROM t WHERE id = :id with this
\* id: the rows of the id, the columns in the order the table has them
selected(stored, columns, idColumn, id) ==
    With(SelectSeq(stored, LAMBDA row : row[idColumn] = id), LAMBDA hits :
        StoredRows(columns,
                   [k \in 1..Len(hits) |->
                       [j \in 1..Len(columns) |-> hits[k][columns[j]]]]))

\* err := dbh.Insert(arg.i) of the caller's record t against the database:
\* the statement fails, or the row is stored under the next id; the
\* driver reports the id with res.LastInsertId or does not support that
StoreInsert ==
    /\ ~ret.panicked
    /\ Len(Db) < MaxRows
    /\ \E time \in Times, ok \in BOOLEAN,
          supported \in IF hasCustomInsert(sqlDialect) THEN {TRUE} ELSE BOOLEAN :
        \E newId \in {Len(Db) + 1} :
        \E r \in {Insert(tables, structT, sqlDialect, arg.i, obj.t, time,
                          IF ok
                          THEN StoredRows(<<tables[tT].idField[1].column>>,
                                          <<<<newId>>>>)
                          ELSE QueryOutcome(FALSE, Nil, 0, 0),
                          ok, IF supported THEN <<newId>> ELSE Nil)} :
            /\ ret' = r.ret
            /\ drv' = r.calls
            /\ obj' = [obj EXCEPT !.t = r.obj]
            /\ rows' = r.rows
            /\ Db' = IF executed(r.calls) = {} THEN Db
                     ELSE Append(Db, storedRow(tables[tT],
                                               tables[tT].insertQuery[1],
                                               CHOOSE v \in executed(r.calls) : TRUE,
                                               newId))
            /\ UNCHANGED <<structT, sqlDialect, tables, pstmt, arg>>
            /\ UNCHANGED <<selectQueries, threads>>

\* var record T; n, err := pstmt.Query(&record, t.Id) against the database
StoreSelect ==
    /\ ~ret.panicked
    /\ \E columns \in MapOrders(tables[tT]) :
        \E r \in {Query(tables, structT, pstmt[1], Dest(PtrTo(tT), FALSE),
                         ZeroOf(tT, structT),
                         Ptr(Value("int", obj.t[tables[tT].idField[1].index])),
                         selected(Db, columns, tables[tT].idField[1].column,
                                  obj.t[tables[tT].idField[1].index]))} :
            /\ ret' = r.ret
            /\ drv' = r.calls
            /\ obj' = [obj EXCEPT !.record = r.obj]
            /\ rows' = r.rows
            /\ UNCHANGED <<structT, sqlDialect, tables, pstmt, arg>>
            /\ UNCHANGED <<Db, selectQueries, threads>>

\* a program that has registered T as table "t" of an empty table, has
\* compiled the select by id and holds a record t it passes to Insert by
\* pointer or by value
InitStore ==
    /\ structT \in StoreDecls
    /\ sqlDialect \in Dialects
    /\ tables \in RegistriesOf(<<>>, structT, sqlDialect, PtrTo(tT), <<"t">>)
    /\ pstmt = Prepare(sqlDialect, SelectById, TRUE).pstmt
    /\ arg \in [i : {Dest(PtrTo(tT), FALSE), Dest(tT, FALSE)}, params : {Nil}]
    /\ obj \in {[t |-> rec, record |-> ZeroOf(tT, structT)] :
                  rec \in NewRecords(structT)}
    /\ rows = Nil
    /\ ret = Outcome("Prepare", 0, "nil", FALSE)
    /\ drv = <<>>
    /\ Db = <<>>
    /\ selectQueries = <<>>
    /\ threads = <<>>

NextStore == StoreInsert \/ StoreSelect

SpecStore == InitStore /\ [][NextStore]_vars

----------------------------------------------------------------------------
(* Properties of the round trip.                                           *)

\* the fields of a record that Insert is to populate: id, created, modified
RoleFields(tbl) ==
    {f \in Range(tbl.idField \o tbl.createdField \o tbl.modifiedField) : TRUE}

\* C21: after Insert of a record has succeeded, its id, created and
\* modified fields are non-zero, and a query by its id into a new record
\* finds one row and yields a record equal to it in every field.
C21_RoundTrip ==
    /\ Returned0("Insert")
       => \A f \in RoleFields(tables[tT]) : obj.t[f.index] # 0
    /\ (Returned0("Query") /\ Db # <<>>)
       => ret.num = 1 /\ obj.record = obj.t

\* the driver stored the row and did not report its id: Insert returned no
\* error, the row has its id and its stamp, the record has neither
C21_StoredWithoutId ==
    /\ Returned0("Insert")
    /\ Db # <<>>
    /\ \A f \in RoleFields(tables[tT]) :
         Db[Len(Db)][f.column] # 0 /\ obj.t[f.index] = 0

----------------------------------------------------------------------------
(* PrepareSelect and the selection by one column.                          *)

\* fmt.Sprintf("SELECT * FORM %s WHERE %s = :%s", tbl.name, column, column)
selectText(tbl, column) ==
    <<"S", "E", "L", "E", "C", "T", " ", "*", " ", "F", "O", "R", "M", " ">> \o tbl.name \o <<" ", "W", "H", "E", "R", "E", " ">> \o column \o <<" ", "=", " ", ":">> \o column

\* DbHelper.PrepareSelect(i, column); ok: whether the driver accepts the
\* statement. Returns what Prepare returns.
PrepareSelect(tbls, dialect, i, column, ok) ==
    With(typeOf(i), LAMBDA ty :
        IF ty.err # "nil" THEN [err |-> ty.err, pstmt |-> <<>>, calls |-> <<>>]
        ELSE With(getTable(tbls, ty.t), LAMBDA found :
            IF found.err # "nil"
            THEN [err |-> found.err, pstmt |-> <<>>, calls |-> <<>>]
            ELSE IF column \notin DOMAIN found.tbl[1].fields
            THEN [err |-> "noField", pstmt |-> <<>>, calls |-> <<>>]
            ELSE Prepare(dialect, selectText(found.tbl[1], column), ok)))

\* what SelectBy hands back: what Query hands back, and the statements kept
Selected(q, calls, kept) ==
    [ret |-> [q.ret EXCEPT !.op = "SelectBy"], obj |-> q.obj,
     calls |-> calls \o q.calls, rows |-> q.rows, kept |-> kept]

\* SelectBy that compiles the statement at every call
SelectByAnew(tbls, kept, declT, dialect, i, cur, column, value, ok, out) ==
    With(PrepareSelect(tbls, dialect, i[1].type, column, ok), LAMBDA p :
        IF p.err # "nil"
        THEN Selected([ret |-> Outcome("SelectBy", 0, p.err, FALSE), obj |-> cur,
                       calls |-> <<>>, rows |-> Nil], p.calls, kept)
        ELSE Selected(Query(tbls, declT, p.pstmt[1], i, cur, Ptr(value), out),
                      p.calls,
                      (<<typeOf(i[1].type).t, column>> :> p.pstmt[1]) @@ kept))

\* dbh.SelectBy(i, column, value), which the tests call and the sources do
\* not hold: the statement kept for the column of the table of i's record
\* type is run with the value; when none is kept yet, PrepareSelect
\* compiles it and it is kept from then on.
SelectBy(tbls, kept, declT, dialect, i, cur, column, value, ok, out) ==
    IF <<typeOf(i[1].type).t, column>> \in DOMAIN kept
    THEN Selected(Query(tbls, declT, kept[<<typeOf(i[1].type).t, column>>], i,
                        cur, Ptr(value), out),
                  <<>>, kept)
    ELSE With(PrepareSelect(tbls, dialect, i[1].type, column, ok), LAMBDA p :
        IF p.err # "nil"
        THEN Selected([ret |-> Outcome("SelectBy", 0, p.err, FALSE), obj |-> cur,
                       calls |-> <<>>, rows |-> Nil], p.calls, kept)
        ELSE Selected(Query(tbls, declT, p.pstmt[1], i, cur, Ptr(value), out),
                      p.calls,
                      (<<typeOf(i[1].type).t, column>> :> p.pstmt[1]) @@ kept))

\* the columns these programs select by: the flag, the modified stamp, and
\* one that no table has
SelectColumns == {<<"b">>, <<"m">>, <<"x">>}

\* the records and destinations of these programs: a T, a *T, a *U
SelectArgs == {Dest(tT, FALSE), Dest(PtrTo(tT), FALSE), Dest(PtrTo(tU), FALSE)}

\* the statements of their own that these programs compile
OwnTemplates == {<<>>, <<":", "a">>}

\* pstmt, err := dbh.Prepare(query) for one of these templates; the program
\* goes on with the statement it had when Prepare fails
CallPrepareOf(templates) ==
    /\ ~ret.panicked
    /\ \E query \in templates, ok \in BOOLEAN :
        \E r \in {Prepare(sqlDialect, query, ok)} :
            /\ pstmt' = IF r.err = "nil" THEN r.pstmt ELSE pstmt
            /\ drv' = r.calls
            /\ ret' = Returned("Prepare", Nil, Nil, r.err, FALSE)
            /\ rows' = Nil
            /\ UNCHANGED <<structT, sqlDialect, tables, arg, obj>>
            /\ UNCHANGED <<Db, selectQueries, threads>>

\* pstmt, err := dbh.PrepareSelect(i, column); the program goes on with the
\* statement it had when PrepareSelect fails
CallPrepareSelect ==
    /\ ~ret.panicked
    /\ \E i \in RegistryArgs, column \in SelectColumns, ok \in BOOLEAN :
        \E r \in {PrepareSelect(tables, sqlDialect, i, column, ok)} :
            /\ pstmt' = IF r.err = "nil" THEN r.pstmt ELSE pstmt
            /\ drv' = r.calls
            /\ ret' = Returned("PrepareSelect", i, column, r.err, FALSE)
            /\ rows' = Nil
            /\ UNCHANGED <<structT, sqlDialect, tables, arg, obj>>
            /\ UNCHANGED <<Db, selectQueries, threads>>

\* n, err := dbh.SelectBy(arg.i, column, 1); a panic ends the program
CallSelectBy ==
    /\ ~ret.panicked
    /\ Kind(arg.i[1].type) = "ptr"
    /\ \E column \in SelectColumns, ok \in BOOLEAN, out \in NoRows :
        \E r \in {SelectBy(tables, selectQueries, structT, sqlDialect, arg.i, obj,
                            column, Value("int", 1), ok, out)} :
            /\ ret' = [Returned("SelectBy", arg.i, column, r.ret.err, FALSE)
                         EXCEPT !.panicked = r.ret.panicked]
            /\ drv' = r.calls
            /\ obj' = r.obj
            /\ rows' = r.rows
            /\ selectQueries' = r.kept
            /\ UNCHANGED <<structT, sqlDialect, tables, pstmt, arg>>
            /\ UNCHANGED <<Db, threads>>

\* a program that has opened a MySql database, has registered T and U, has
\* compiled a statement without parameters and goes on to compile
\* statements, to run them, to select by columns and to remove and add
\* tables
InitSelect ==
    /\ structT \in RemoveDecls
    /\ sqlDialect = "MySql"
    /\ tables \in UNION {RegistriesOf(tbls, structT, sqlDialect, tU, <<"t">>) :
                           tbls \in RegistriesOf(<<>>, structT, sqlDialect, tT, <<"t">>)}
    /\ pstmt = Prepare(sqlDialect, <<>>, TRUE).pstmt
    /\ arg \in [i : SelectArgs, params : {Nil}]
    /\ obj = Pointee(arg.i, structT)
    /\ rows = Nil
    /\ ret = Returned("Prepare", Nil, Nil, "nil", FALSE)
    /\ drv = <<>>
    /\ Db = <<>>
    /\ selectQueries = <<>>
    /\ threads = <<>>

NextSelect ==
    \/ \E i \in RegistryArgs, name \in TableNames : AddTable(i, name)
    \/ \E i \in RegistryArgs : RemoveTable(i)
    \/ CallPrepareOf(OwnTemplates)
    \/ CallPrepareSelect
    \/ CallSelectBy
    \/ CallExec
    \/ CallQueryOn(NoRows)

SpecSelect == InitSelect /\ [][NextSelect]_vars

----------------------------------------------------------------------------
(* Properties of the selection by one column.                              *)

\* the calls of dbh.Db.Prepare in a log that the driver accepted
Accepted(calls) == {j \in CallsOf(calls, "Prepare") : calls[j].ok}

----------------------------------------------------------------------------
(* Threads that run one compiled statement at the same time.               *)

\* most threads that share the statement
MaxThreads == 2

Threads == 1..MaxThreads

\* exec from "execute query" on, with the values getValues returned
execValues(g, ok) ==
    [err |-> IF ok THEN "nil" ELSE "driver", panicked |-> FALSE,
     calls |-> <<dbCall("Exec", Spread(g.values), ok)>>]

\* Exec from "get number of affected rows" on
execCount(e, affected) ==
    IF e.panicked \/ e.err # "nil"
    THEN [ret |-> Outcome("Exec", 0, e.err, e.panicked), calls |-> e.calls]
    ELSE IF affected = Nil
    THEN [ret |-> Outcome("Exec", -1, "nil", FALSE), calls |-> e.calls]
    ELSE [ret |-> Outcome("Exec", affected[1], "nil", FALSE), calls |-> e.calls]

\* Query from "perform query" on, with the values getValues returned, for a
\* destination that has passed the checks before
queryValues(tbls, declT, i, cur, g, out) ==
    With(IF Kind(Elem(i[1].type)) = "slice" THEN Elem(Elem(Elem(i[1].type)))
         ELSE Elem(i[1].type), LAMBDA returnType :
        runQuery(IF Kind(returnType) = "struct" THEN getTable(tbls, returnType).tbl
                 ELSE Nil,
                 Shape(Kind(Elem(i[1].type)) = "slice", Kind(returnType),
                       ZeroOf(returnType, declT)),
                 cur, Spread(g.values), out))

\* "values" is a variable of the call: a thread hands the driver the slice
\* its own call of getValues has made
valuesOfOther(held, t) ==
    IF \E u \in DOMAIN held : u # t /\ held[u].pc = "bound"
    THEN held[CHOOSE u \in DOMAIN held : u # t /\ held[u].pc = "bound"].values
    ELSE held[t].values

valuesOf(held, t) == held[t].values

\* what the database does with a statement: it fails, finds no row, or
\* finds the row whose every column is the first value handed to it
Choices == {"fails", "empty", "row"}

\* the columns of the result for a destination: those of its table in one
\* order, or the one computed column
columnsFor(tbls, i) ==
    IF Kind(Elem(i[1].type)) = "struct"
    THEN CHOOSE o \in MapOrders(tbls[Elem(i[1].type)]) : TRUE
    ELSE <<SelectCount>>

answerTo(tbls, i, g, choice) ==
    IF choice = "fails" THEN QueryOutcome(FALSE, Nil, 0, 0)
    ELSE IF choice = "empty" THEN StoredRows(columnsFor(tbls, i), <<>>)
    ELSE StoredRows(columnsFor(tbls, i),
                    <<[j \in 1..Len(columnsFor(tbls, i)) |->
                         IF Spread(g.values) = <<>> THEN 0
                         ELSE Spread(g.values)[1].n]>>)

\* the call of a thread run alone with these answers of the driver
Alone(tbls, declT, stmt, th, ok, affected, choice) ==
    IF th.op = "Exec"
    THEN With(Exec(stmt, th.params, ok, affected), LAMBDA r :
            [ret |-> r.ret, obj |-> Pointee(th.i, declT), calls |-> r.calls])
    ELSE With(Query(tbls, declT, stmt, th.i, Pointee(th.i, declT), th.params,
                    answerTo(tbls, th.i, getValues(stmt, th.params), choice)),
              LAMBDA r : [ret |-> r.ret, obj |-> r.obj, calls |-> r.calls])

\* a thread from the start of Exec or Query to the return of getValues: the
\* call returns without asking the driver, or holds the values
ThreadBind(t) ==
    /\ threads[t].pc = "idle"
    /\ \E r \in {Alone(tables, structT, pstmt[1], threads[t], FALSE, Nil, "fails")} :
        /\ threads' = [threads EXCEPT ![t] =
               IF r.calls = <<>>
               THEN [@ EXCEPT !.pc = "done", !.ret = r.ret]
               ELSE [@ EXCEPT !.pc = "bound",
                              !.values = getValues(pstmt[1], threads[t].params)]]
        /\ drv' = <<>>
        /\ UNCHANGED <<structT, sqlDialect, tables, pstmt, arg, obj, rows, ret>>
        /\ UNCHANGED <<Db, selectQueries>>

\* a thread from stmt.Exec or stmt.Query to the return of its call
ThreadRun(t) ==
    /\ threads[t].pc = "bound"
    /\ \E ok \in BOOLEAN, affected \in RowsAffected, choice \in Choices :
        /\ threads[t].op = "Exec" => choice = "row"
        /\ threads[t].op = "Query" => ok /\ affected = Nil
        /\ \E r \in {IF threads[t].op = "Exec"
                     THEN With(execCount(execValues(valuesOf(threads, t), ok),
                                         affected), LAMBDA e :
                             [ret |-> e.ret, obj |-> threads[t].obj,
                              calls |-> e.calls])
                     ELSE queryValues(tables, structT, threads[t].i,
                                      threads[t].obj, valuesOf(threads, t),
                                      answerTo(tables, threads[t].i,
                                               valuesOf(threads, t), choice))} :
            /\ threads' = [threads EXCEPT ![t] =
                   [@ EXCEPT !.pc = "done", !.ret = r.ret, !.obj = r.obj,
                             !.calls = r.calls,
                             !.answer = [ok |-> ok, affected |-> affected,
                                         choice |-> choice]]]
            /\ drv' = r.calls
        /\ UNCHANGED <<structT, sqlDialect, tables, pstmt, arg, obj, rows, ret>>
        /\ UNCHANGED <<Db, selectQueries>>

\* the params of the threads: nil, and two maps that give the names
\* different values
ThreadParams ==
    {Nil,
     Ptr(MapValue([name \in Names |->
                     Ptr(Value("int", IF name = <<"a">> THEN 1 ELSE 2))])),
     Ptr(MapValue([name \in Names |->
                     Ptr(Value("int", IF name = <<"a">> THEN 3 ELSE 4))]))}

\* the destinations of the threads: each its own *int or *T
ThreadDests == {Dest(PtrTo(tInt), FALSE), Dest(PtrTo(tT), FALSE)}

\* a program that has registered T, has compiled a statement with the
\* parameters a and b and starts threads that each call Exec or Query on it
InitThreads ==
    /\ structT = <<fId, fBool>>
    /\ sqlDialect = "Sqlite"
    /\ tables \in RegistriesOf(<<>>, structT, sqlDialect, PtrTo(tT), <<"t">>)
    /\ pstmt = Prepare(sqlDialect, <<":", "a", ",", ":", "b">>, TRUE).pstmt
    /\ arg = Nil
    /\ obj = Nil
    /\ rows = Nil
    /\ ret = Outcome("Prepare", 0, "nil", FALSE)
    /\ drv = <<>>
    /\ Db = <<>>
    /\ selectQueries = <<>>
    /\ \E call \in [Threads -> {"Exec", "Query"} \X ThreadDests \X ThreadParams] :
        threads = [t \in Threads |->
                     [pc |-> "idle", op |-> call[t][1], i |-> call[t][2],
                      params |-> call[t][3], values |-> Nil, answer |-> Nil,
                      ret |-> Outcome(call[t][1], 0, "nil", FALSE),
                      obj |-> Pointee(call[t][2], structT), calls |-> <<>>]]

NextThreads == \E t \in Threads : ThreadBind(t) \/ ThreadRun(t)

SpecThreads == InitThreads /\ [][NextThreads]_vars

----------------------------------------------------------------------------
(* Properties of the threads.                                              *)

\* C23: in every interleaving of the threads' calls of Exec and Query on
\* the one compiled statement, a step of a thread changes nothing another
\* thread holds, and a call that has returned has handed the driver its own
\* values in the order of the statement's parameters and has returned and
\* written to its destination what the same call returns and writes when
\* it runs alone with the same answers of the driver.
C23_ThreadsIndependent ==
    [][/\ \A t, u \in Threads :
            (threads'[t] # threads[t] /\ u # t) => threads'[u] = threads[u]
       /\ \A t \in Threads :
            (threads'[t].pc = "done" /\ threads[t].pc = "bound")
            => With(Alone(tables, structT, pstmt[1], threads[t],
                          threads'[t].answer.ok, threads'[t].answer.affected,
                          threads'[t].answer.choice), LAMBDA r :
                  /\ threads'[t].ret = r.ret
                  /\ threads'[t].obj = r.obj
                  /\ threads'[t].calls = r.calls
                  /\ threads'[t].calls[1].args
                        = [k \in 1..Len(pstmt[1].params) |->
                              threads[t].params[1].at[pstmt[1].params[k]][1]])]_vars

\* every thread has called Query with params of its own, and each has read
\* the row of its own values into its own record
C23_BothBoundThenRead ==
    /\ \A t \in Threads :
         /\ threads[t].pc = "done" /\ threads[t].op = "Query"
         /\ threads[t].i = Dest(PtrTo(tT), FALSE)
         /\ threads[t].ret.num = 1
         /\ \A p \in DOMAIN threads[t].obj :
              threads[t].obj[p] = threads[t].params[1].at[<<"a">>][1].n
    /\ threads[1].params # threads[2].params

----------------------------------------------------------------------------
(* Properties of the standard statements' parameter lists.                 *)

\* the text of a statement between two of its words
Between(query, from, to) ==
    With(Slice(query, Index(query, from) + Len(from), Len(query)), LAMBDA rest :
        IF to = <<>> THEN rest ELSE Slice(rest, 0, Index(rest, to)))

\* a list in a statement, as the database reads it: its items, without the
\* space after a comma
Items(list) ==
    IF list = <<>> THEN <<>>
    ELSE With(Split(list, <<",">>), LAMBDA parts :
            [k \in DOMAIN parts |->
                IF parts[k] # <<>> /\ parts[k][1] = " " THEN Tail(parts[k])
                ELSE parts[k]])

\* the column and the placeholder of "column = placeholder"
Assigned(item) ==
    <<Slice(item, 0, Index(item, <<" ", "=", " ">>)), Between(item, <<" ", "=", " ">>, <<>>)>>

ColumnsWhere(tbl, keep(_)) == {c \in DOMAIN tbl.fields : keep(tbl.fields[c])}

\* C24: of every registered table, in whatever order the column map was
\* enumerated: the insert statement's parameters are the non-auto columns,
\* each once, the k-th column its text names being the k-th parameter and
\* the k-th value the k-th placeholder; the update statement's parameters
\* are the columns that are neither id nor auto nor created, each once,
\* the k-th assignment giving the k-th of them the k-th placeholder, and
\* last the id column, which the WHERE clause compares; the delete
\* statement's parameters are the id column alone.
C24_StatementParameters ==
    \A t \in DOMAIN tables :
        LET tbl == tables[t]
            ins == tbl.insertQuery[1]
            upd == tbl.updateQuery[1]
            del == tbl.deleteQuery[1]
            id == tbl.idField[1].column
            inserted == ColumnsWhere(tbl, LAMBDA f : ~f.auto)
            updated == ColumnsWhere(tbl, LAMBDA f : ~(f.id \/ f.auto \/ f.created))
            sets == Items(Between(upd.query, <<" ", "S", "E", "T", " ">>, <<" ", "W", "H", "E", "R", "E", " ">>))
        IN  /\ Len(ins.params) = Cardinality(inserted)
            /\ Range(ins.params) = inserted
            /\ Items(Between(ins.query, <<"(">>, <<")">>)) = ins.params
            /\ Items(Between(ins.query, <<"V", "A", "L", "U", "E", "S", "(">>, <<")">>))
                  = [k \in 1..Len(ins.params) |-> phNext(sqlDialect, k)]
            /\ Len(upd.params) = Cardinality(updated) + 1
            /\ Range(SubSeq(upd.params, 1, Len(upd.params) - 1)) = updated
            /\ Len(sets) = Len(upd.params) - 1
            /\ \A k \in 1..Len(sets) :
                  Assigned(sets[k]) = <<upd.params[k], phNext(sqlDialect, k)>>
            /\ upd.params[Len(upd.params)] = id
            /\ Assigned(Between(upd.query, <<" ", "W", "H", "E", "R", "E", " ">>, <<>>))
                  = <<id, phNext(sqlDialect, Len(upd.params))>>
            /\ del.params = <<id>>

\* a table is registered whose column map was enumerated against the order
\* of declaration: its insert statement names two columns, the id column,
\* which is declared first, last
C24_EnumeratedBackwards ==
    /\ tT \in DOMAIN tables
    /\ structT[1].dbopt = <<"i", "d">>
    /\ Len(tables[tT].insertQuery[1].params) = 2
    /\ tables[tT].insertQuery[1].params[2] = tables[tT].idField[1].column

----------------------------------------------------------------------------
(* Properties of the storage paths.                                        *)

\* v.FieldByIndex(index) on a record of this declaration: the field that
\* the path reaches
RECURSIVE FieldByIndex(_, _)
FieldByIndex(decl, index) ==
    IF Len(index) = 1 THEN decl[index[1] + 1]
    ELSE FieldByIndex(decl[index[1] + 1].Sub, Tail(index))

\* C25: of every registered table, the storage path of the descriptor of a
\* column leads from the outermost record to the exported named field that
\* is mapped to the column: every step but the last enters an embedded
\* record, so a leaf under k embedded records has a path of k + 1 indices,
\* the path is one that FieldByIndex resolves on a record, and the paths of
\* two columns of the table differ; the descriptors of the id, created and
\* modified fields carry the same paths.
C25_StoragePaths ==
    \A t \in DOMAIN tables :
        LET tbl == tables[t]
            decl == FieldsOf(t, structT)
        IN  /\ \A c \in DOMAIN tbl.fields :
                 LET index == tbl.fields[c].index
                 IN  /\ index \in FieldPaths(decl)
                     /\ \A j \in 1..(Len(index) - 1) :
                          /\ FieldByIndex(decl, SubSeq(index, 1, j)).Anonymous
                          /\ FieldByIndex(decl, SubSeq(index, 1, j)).Kind = "struct"
                     /\ ~FieldByIndex(decl, index).Anonymous
                     /\ Column(FieldByIndex(decl, index)) = c
                     /\ tbl.fields[c].column = c
            /\ \A c, d \in DOMAIN tbl.fields :
                 c # d => tbl.fields[c].index # tbl.fields[d].index
            /\ \A f \in RoleFields(tbl) : f = tbl.fields[f.column]

\* a table is registered that has a column of a field under two embedded
\* records, with a path of three indices
C25_TwoLevels ==
    /\ tT \in DOMAIN tables
    /\ \E c \in DOMAIN tables[tT].fields : Len(tables[tT].fields[c].index) = 3

----------------------------------------------------------------------------
(* Programs that use every operation of the registry and of a statement.   *)

\* a program that has opened a MySql database, has registered T and U, has
\* compiled a statement and goes on to call every operation
InitFrame ==
    /\ structT \in RemoveDecls
    /\ sqlDialect = "MySql"
    /\ tables \in UNION {RegistriesOf(tbls, structT, sqlDialect, tU, <<"t">>) :
                           tbls \in RegistriesOf(<<>>, structT, sqlDialect, tT, <<"t">>)}
    /\ pstmt = Prepare(sqlDialect, <<>>, TRUE).pstmt
    /\ arg \in [i : SelectArgs, params : {Nil}]
    /\ obj = Pointee(arg.i, structT)
    /\ rows = Nil
    /\ ret = Returned("Prepare", Nil, Nil, "nil", FALSE)
    /\ drv = <<>>
    /\ Db = <<>>
    /\ selectQueries = <<>>
    /\ threads = <<>>

NextFrame ==
    \/ \E i \in RegistryArgs, name \in TableNames : AddTable(i, name)
    \/ \E i \in RegistryArgs : RemoveTable(i)
    \/ CallPrepareOf(OwnTemplates)
    \/ CallPrepareSelect
    \/ CallExec
    \/ CallQueryOn(NoRows)
    \/ CallInsert
    \/ CallUpdate
    \/ CallDelete

SpecFrame == InitFrame /\ [][NextFrame]_vars

----------------------------------------------------------------------------
(* Properties of the registry's frame.                                     *)

\* the operations that use the registry without registering or removing
HotPath == {"Prepare", "PrepareSelect", "Exec", "Query", "Insert", "Update", "Delete"}

\* C26: every call of Prepare, PrepareSelect, Exec, Query, Insert, Update
\* or Delete, with or without error, leaves the registry as it was: the
\* same registered types, each with the same descriptor (columns, role
\* fields, field counts and the three statements with their parameter
\* lists); the registry changes only in an AddTable that returns no error,
\* which adds one type and leaves the others, and in a RemoveTable that
\* returns true, which removes one and leaves the others.
C26_RegistryFrame ==
    [][/\ ret'.op \in HotPath => tables' = tables
       /\ tables' # tables =>
            \/ /\ ret'.op = "AddTable" /\ ret'.err = "nil"
               /\ \E t \in DOMAIN tables' \ DOMAIN tables :
                    /\ DOMAIN tables' = DOMAIN tables \cup {t}
                    /\ \A u \in DOMAIN tables : tables'[u] = tables[u]
            \/ /\ ret'.op = "RemoveTable" /\ ret'.removed
               /\ \E t \in DOMAIN tables \ DOMAIN tables' :
                    /\ DOMAIN tables' = DOMAIN tables \ {t}
                    /\ \A u \in DOMAIN tables' : tables'[u] = tables[u]]_vars

\* an Update has set the modified field of the caller's record, and T is
\* registered with its modified field as before
C26_RecordChangedTablesKept ==
    /\ ret.op = "Update" /\ ret.err = "nil" /\ ~ret.panicked
    /\ ByPointer
    /\ tT \in DOMAIN tables
    /\ tables[tT].modifiedField # Nil
    /\ obj[tables[tT].modifiedField[1].index] \in Times

----------------------------------------------------------------------------
(* Properties of the prepared handles.                                     *)

\* how many handles the driver made in a log of driver calls: one for each
\* Prepare it accepted
Handles(calls) ==
    Cardinality({k \in 1..Len(calls) : calls[k].op = "Prepare" /\ calls[k].ok})

\* how many handles a log of driver calls gave back
Closes(calls) == Cardinality({k \in 1..Len(calls) : calls[k].op = "Close"})

\* C27: an AddTable that returns an error has closed every handle the
\* driver made for the statements it prepared before the failure, and a
\* RemoveTable that returns true has closed the three handles of the
\* statements of the table it removed.
C27_HandlesClosed ==
    /\ (ret.op = "AddTable" /\ ret.err # "nil") => Closes(drv) = Handles(drv)
    /\ (ret.op = "RemoveTable" /\ ret.removed) => Closes(drv) = 3

\* AddTable has failed at the update statement after the driver made a
\* handle for the insert statement: no table is registered that holds the
\* handle, and no Close was called
C27_HandleLeftOpen ==
    /\ ret.op = "AddTable" /\ ret.err = "driver"
    /\ Len(drv) = 2 /\ drv[1].ok /\ ~drv[2].ok
    /\ tables = <<>>
    /\ Handles(drv) = 1 /\ Closes(drv) = 0

----------------------------------------------------------------------------
(* Properties of PrepareSelect.                                            *)

\* C28: PrepareSelect(i, column) for a registered type of i and a column of
\* its table hands the driver the statement SELECT * FROM <table> WHERE
\* <column> = <first placeholder> and, when the driver accepts it, returns
\* a statement whose parameters are the column alone; for nil, for a type
\* without table and for a column the table has not, it returns an error
\* and calls no Prepare of the driver.
C28_PrepareSelectStatement ==
    ret.op = "PrepareSelect" =>
        IF /\ ret.i # Nil
           /\ typeOf(ret.i).t \in DOMAIN tables
           /\ ret.name \in DOMAIN tables[typeOf(ret.i).t].fields
        THEN /\ Len(drv) = 1 /\ drv[1].op = "Prepare"
             /\ ret.err = (IF drv[1].ok THEN "nil" ELSE "driver")
             /\ ret.err = "nil" =>
                  /\ pstmt[1].query
                        = <<"S", "E", "L", "E", "C", "T", " ", "*", " ", "F", "R", "O", "M", " ">> \o tables[typeOf(ret.i).t].name
                             \o <<" ", "W", "H", "E", "R", "E", " ">> \o ret.name \o <<" ", "=", " ">>
                             \o phNext(sqlDialect, 1)
                  /\ pstmt[1].params = <<ret.name>>
        ELSE ret.err # "nil" /\ drv = <<>>

\* PrepareSelect has returned a statement for the column b of T that the
\* driver accepted, and its text has FORM where the table is named
C28_FormSent ==
    /\ ret.op = "PrepareSelect" /\ ret.err = "nil"
    /\ ret.i = PtrTo(tT) /\ ret.name = <<"b">>
    /\ pstmt[1].query = <<"S", "E", "L", "E", "C", "T", " ", "*", " ", "F", "O", "R", "M", " ", "t", " ", "W", "H", "E", "R", "E", " ", "b", " ", "=", " ", "?">>
    /\ pstmt[1].params = <<<<"b">>>>

----------------------------------------------------------------------------
(* Properties of the scan destinations.                                    *)

\* the last step was a Query into a record or a sequence of records of T
\* whose result has these columns, every one a column of T's table
Scanned(columns) ==
    /\ ret.op = "Query" /\ arg.i \in {RecordDest, SliceDest}
    /\ tT \in DOMAIN tables
    /\ rows # Nil /\ rows[1].result.columns = Ptr(columns)
    /\ \A j \in 1..Len(columns) : columns[j] \in DOMAIN tables[tT].fields

\* C29: a Query into a record or a sequence of records hands every
\* rows.Scan one destination per column of the result, the j-th being the
\* address of the field mapped to the j-th column, for every list of mapped
\* columns, also one with fewer columns than the table has fields; the
\* first row of a result that has rows is scanned.
C29_OneDestinationPerColumn ==
    \A columns \in ColumnLists(tables) :
        Scanned(columns) =>
            /\ \A k \in 1..Len(drv) :
                 drv[k].op = "Scan" =>
                    drv[k].args = [j \in 1..Len(columns) |->
                                      Ptr(tables[tT].fields[columns[j]].index)]
            /\ rows[1].result.rows > 0 => \E k \in 1..Len(drv) : drv[k].op = "Scan"

\* a Query into a record of a table with two fields whose result has one
\* of its columns: rows.Scan was handed two destinations, the second nil,
\* and the Query returned its error
C29_ScanShortOfColumns ==
    /\ \E columns \in ColumnLists(tables) : Scanned(columns) /\ Len(columns) = 1
    /\ arg.i = RecordDest
    /\ tables[tT].numField = 2
    /\ \E k \in 1..Len(drv) :
         /\ drv[k].op = "Scan" /\ ~drv[k].ok
         /\ Len(drv[k].args) = 2 /\ drv[k].args[2] = Nil
    /\ ret.err = "driver" /\ ret.num = 0
    /\ rows[1].result.bad = 0

----------------------------------------------------------------------------
(* Properties of the end of Insert.                                        *)

\* C30: an Insert that does not return has not executed the insert
\* statement: no stmt.Exec and no stmt.Query of its log was accepted by the
\* driver. (An Insert that executed it returns.)
C30_InsertRejectsOrReturns ==
    (ret.op = "Insert" /\ ret.panicked)
    => \A k \in 1..Len(drv) : drv[k].op \in {"Exec", "Query"} => ~drv[k].ok

\* a record was passed to Insert by value under the dialect with a custom
\* insert: the query of the insert statement was accepted and its row with
\* the new id was read, and the call panicked
C30_PanicAfterCustomInsert ==
    /\ ByValue /\ ret.op = "Insert" /\ hasCustomInsert(sqlDialect)
    /\ drv # <<>> /\ drv[1].op = "Query" /\ drv[1].ok
    /\ \E k \in 1..Len(drv) : drv[k].op = "Scan" /\ drv[k].ok
    /\ ret.panicked
    /\ obj = Filled(tT, structT)

====
